---- MODULE Spec2Model ----
(***************************************************************************)
(* Restaurant data analysis tool: the column-mapping inference of          *)
(* restaurant_data_foundation.py (ColumnMapper, RestaurantDataAnalyzer)    *)
(* and of restaurant_ai_analyzer.py (RestaurantDataAI), with the analysis  *)
(* operations that are driven by the inferred mapping.                     *)
(*                                                                         *)
(* A column label is a record [isstr, text]: a pandas column label is a    *)
(* Python object, a str for a CSV header and possibly an int for a         *)
(* spreadsheet header cell that holds a number.                            *)
(***************************************************************************)
EXTENDS Integers, Sequences, FiniteSets, TLC

VARIABLES
    df,             \* the columns of the DataFrame handed to ColumnMapper
    detected,       \* what ColumnMapper.auto_detect_columns did with df
    data,           \* RestaurantDataAnalyzer.data
    mapping,        \* RestaurantDataAnalyzer.mapping
    report,         \* RestaurantDataAnalyzer.report
    result,         \* outcome of the last RestaurantDataAnalyzer operation
    ai_data,        \* RestaurantDataAI.data
    column_mapping, \* RestaurantDataAI.column_mapping
    data_type,      \* RestaurantDataAI.data_type
    ai_result,      \* outcome of the last RestaurantDataAI operation
    input,          \* the argument of a function called on its own
    output,         \* what that function returned
    gui,            \* the widgets and fields of a SimpleAnalyzerGUI
    workers         \* the threads a SimpleAnalyzerGUI started

mapperVars == <<df, detected>>
analyzerVars == <<data, mapping, report, result>>
aiVars == <<ai_data, column_mapping, data_type, ai_result>>
pureVars == <<input, output>>
guiVars == <<gui, workers>>
vars == <<df, detected, data, mapping, report, result,
          ai_data, column_mapping, data_type, ai_result, input, output, gui, workers>>

(***************************************************************************)
(* Bounds                                                                  *)
(***************************************************************************)
MaxCols == 3

(***************************************************************************)
(* Python str operations                                                   *)
(***************************************************************************)
UpperAlphabet == "ABCDEFGHIJKLMNOPQRSTUVWXYZ"
LowerAlphabet == "abcdefghijklmnopqrstuvwxyz"

UpperChars == {SubSeq(UpperAlphabet, i, i) : i \in 1..Len(UpperAlphabet)}
LowerOf ==
    [c \in UpperChars |->
        LET i == CHOOSE i \in 1..Len(UpperAlphabet) : SubSeq(UpperAlphabet, i, i) = c
        IN  SubSeq(LowerAlphabet, i, i)]

\* str.lower() on one character
LowerChar(c) == IF c \in UpperChars THEN LowerOf[c] ELSE c

RECURSIVE LowerFrom(_)
LowerFrom(s) ==
    IF Len(s) = 0 THEN s
    ELSE LowerChar(SubSeq(s, 1, 1)) \o LowerFrom(SubSeq(s, 2, Len(s)))

RECURSIVE StripLeft(_)
StripLeft(s) ==
    IF Len(s) > 0 /\ SubSeq(s, 1, 1) = " " THEN StripLeft(SubSeq(s, 2, Len(s))) ELSE s

RECURSIVE StripRight(_)
StripRight(s) ==
    IF Len(s) > 0 /\ SubSeq(s, Len(s), Len(s)) = " "
    THEN StripRight(SubSeq(s, 1, Len(s) - 1)) ELSE s

\* str.strip()
Strip(s) == StripRight(StripLeft(s))

\* the substrings of s of at least one character
Substrings(s) == {SubSeq(s, i, j) : i \in 1..Len(s), j \in 1..Len(s)} \ {""}

(***************************************************************************)
(* The column labels of the files of the model.  The str operations are    *)
(* tabulated once over their texts.                                        *)
(***************************************************************************)
StrLabel(t) == [isstr |-> TRUE, text |-> t]
IntLabel(t) == [isstr |-> FALSE, text |-> t]

MapperLabels ==
    {StrLabel("price"), StrLabel("Price "), StrLabel("Total"),
     StrLabel("total_tax_amount"), StrLabel("Order Date"), StrLabel("item"),
     StrLabel("notes"), StrLabel("NOTES"), IntLabel("2023")}

AnalyzerLabels ==
    {StrLabel("price"), StrLabel("Price "), StrLabel("Order Date")}

AiLabels ==
    {StrLabel("timestamp"), StrLabel("daily_total"), StrLabel("Daily_Total"),
     StrLabel("item"), IntLabel("2023")}

\* the labels of the numeric columns of a summary file
SummaryLabels ==
    {StrLabel("guest_count"), StrLabel("Sales"), StrLabel("Revenue"),
     StrLabel("error"), IntLabel("2023")}

LabelTexts ==
    {l.text : l \in MapperLabels \cup AnalyzerLabels \cup AiLabels \cup SummaryLabels}
LowerTable == [t \in LabelTexts |-> LowerFrom(t)]
LoweredTexts == {LowerTable[t] : t \in LabelTexts}
            \cup {Strip(LowerTable[t]) : t \in LabelTexts}
SubstringTable == [t \in LoweredTexts |-> Substrings(t)]

\* str.lower()
Lower(s) == IF s \in LabelTexts THEN LowerTable[s] ELSE LowerFrom(s)

\* Python's  kw in s  for two strs
Contains(s, kw) ==
    IF s \in LoweredTexts THEN kw \in SubstringTable[s]
    ELSE \E i \in 1..(Len(s) - Len(kw) + 1) : SubSeq(s, i, i + Len(kw) - 1) = kw

(***************************************************************************)
(* Column labels                                                           *)
(***************************************************************************)
\* what pandas' .str methods put in place of an element that is no str
NaN == [isstr |-> FALSE, text |-> "nan"]

\* Index.str.lower() and Index.str.strip(), element by element
StrLower(label) == IF label.isstr THEN StrLabel(Lower(label.text)) ELSE NaN
StrStrip(label) == IF label.isstr THEN StrLabel(Strip(label.text)) ELSE NaN

\* Index.str.lower() and Index.str.strip() on the whole Index, from element
\* i on
RECURSIVE IndexStrLower(_, _)
IndexStrLower(columns, i) ==
    IF i > Len(columns) THEN <<>>
    ELSE <<StrLower(columns[i])>> \o IndexStrLower(columns, i + 1)

RECURSIVE IndexStrStrip(_, _)
IndexStrStrip(columns, i) ==
    IF i > Len(columns) THEN <<>>
    ELSE <<StrStrip(columns[i])>> \o IndexStrStrip(columns, i + 1)

\* The .str accessor refuses an Index none of whose elements is a str.
StrAccessorRaises(columns) ==
    Len(columns) > 0 /\ \A i \in 1..Len(columns) : ~columns[i].isstr

(***************************************************************************)
(* ColumnMapping and ColumnMapper                                          *)
(***************************************************************************)
Fields == {"date", "item_name", "price", "quantity", "category", "order_id",
           "employee", "payment_method", "customer_id", "tax", "discount",
           "tip", "cost"}

\* the keys of DETECTION_PATTERNS in their order
PatternOrder == <<"date", "item_name", "price", "quantity", "category",
                  "payment_method", "employee", "order_id", "customer_id",
                  "tax", "discount", "tip", "cost">>

DETECTION_PATTERNS(field) ==
    CASE field = "date" -> {"date", "time", "created", "order_date", "timestamp", "datetime", "closed"}
      [] field = "item_name" -> {"item", "product", "menu", "name", "description", "dish", "food"}
      [] field = "price" -> {"price", "amount", "total", "cost", "revenue", "value", "sales", "gross"}
      [] field = "quantity" -> {"qty", "quantity", "count", "units", "sold", "ordered"}
      [] field = "category" -> {"category", "type", "group", "section", "class", "department"}
      [] field = "payment_method" -> {"payment", "method", "card", "cash", "tender"}
      [] field = "employee" -> {"employee", "staff", "server", "cashier", "user", "waiter"}
      [] field = "order_id" -> {"order", "ticket", "transaction", "id", "receipt", "check"}
      [] field = "customer_id" -> {"customer", "guest", "phone", "email", "client"}
      [] field = "tax" -> {"tax", "gst", "vat", "sales_tax"}
      [] field = "discount" -> {"discount", "promo", "coupon", "comp"}
      [] field = "tip" -> {"tip", "gratuity", "service"}
      [] field = "cost" -> {"cost", "cogs", "ingredient_cost"}

\* A value held by a field of a ColumnMapping: None, one column label, or a
\* pandas Index of several labels.
None == [kind |-> "none", cols |-> <<>>]
OneLabel(label) == [kind |-> "label", cols |-> <<label>>]
IndexOf(labels) == [kind |-> "index", cols |-> labels]

\* ColumnMapping(): every field None
ColumnMapping == [f \in Fields |-> None]

\* Index.get_loc(key) followed by Index.__getitem__: an int location gives
\* the label at it; a key that occurs several times gives a slice or a mask,
\* and indexing by it the Index of all the labels at those locations.
RECURSIVE LabelsAt(_, _, _, _)
LabelsAt(columns, columns_lower, key, i) ==
    IF i > Len(columns) THEN <<>>
    ELSE (IF columns_lower[i] = key THEN <<columns[i]>> ELSE <<>>)
         \o LabelsAt(columns, columns_lower, key, i + 1)

ColumnsAtLoc(columns, columns_lower, key) ==
    LET labels == LabelsAt(columns, columns_lower, key, 1)
    IN  IF Len(labels) = 1 THEN OneLabel(labels[1]) ELSE IndexOf(labels)

\* any(keyword in col_lower for keyword in keywords)
AnyKeyword(keywords, col_lower) == \E kw \in keywords : Contains(col_lower, kw)

\* (mutant of ScanColumns: the loop does not break at the first match, so the
\* last matching column wins)
RECURSIVE ScanColumnsLast(_, _, _)
ScanColumnsLast(keywords, columns_lower, i) ==
    IF i > Len(columns_lower) THEN 0
    ELSE IF ~columns_lower[i].isstr THEN -1
    ELSE LET later == ScanColumnsLast(keywords, columns_lower, i + 1)
         IN  IF later # 0 THEN later
             ELSE IF AnyKeyword(keywords, columns_lower[i].text) THEN i
             ELSE 0

\* The inner loop of auto_detect_columns for one field, from column i on:
\* the location of the first match, 0 when the loop ends without one, and
\* -1 when  keyword in col_lower  is evaluated on a col_lower that is no str.
RECURSIVE ScanColumns(_, _, _)
ScanColumns(keywords, columns_lower, i) ==
    IF i > Len(columns_lower) THEN 0
    ELSE IF ~columns_lower[i].isstr THEN -1
    ELSE IF AnyKeyword(keywords, columns_lower[i].text) THEN i
    ELSE ScanColumns(keywords, columns_lower, i + 1)

\* (mutant of DetectLoop: a column given to one field is no longer eligible
\* for the fields that come after it)
RECURSIVE DetectLoopExclusive(_, _, _, _)
DetectLoopExclusive(columns, columns_lower, k, m) ==
    IF k > Len(PatternOrder) THEN [raised |-> FALSE, mapping |-> m]
    ELSE LET field == PatternOrder[k]
             Taken(label) ==
                 \E f \in Fields : \E j \in 1..Len(m[f].cols) : m[f].cols[j] = label
             free == [i \in 1..Len(columns) |->
                         IF Taken(columns[i]) THEN [isstr |-> TRUE, text |-> ""]
                         ELSE columns_lower[i]]
             loc == ScanColumns(DETECTION_PATTERNS(field), free, 1)
         IN  IF loc = -1 THEN [raised |-> TRUE, mapping |-> ColumnMapping]
             ELSE IF loc = 0 THEN DetectLoopExclusive(columns, columns_lower, k + 1, m)
             ELSE DetectLoopExclusive(columns, columns_lower, k + 1,
                      [m EXCEPT ![field] =
                          ColumnsAtLoc(columns, columns_lower, columns_lower[loc])])

\* The outer loop of auto_detect_columns, from the k-th pattern on, with the
\* mapping built so far.
RECURSIVE DetectLoop(_, _, _, _)
DetectLoop(columns, columns_lower, k, m) ==
    IF k > Len(PatternOrder) THEN [raised |-> FALSE, mapping |-> m]
    ELSE LET field == PatternOrder[k]
             loc == ScanColumns(DETECTION_PATTERNS(field), columns_lower, 1)
         IN  IF loc = -1 THEN [raised |-> TRUE, mapping |-> ColumnMapping]
             ELSE IF loc = 0 THEN DetectLoop(columns, columns_lower, k + 1, m)
             ELSE DetectLoop(columns, columns_lower, k + 1,
                      [m EXCEPT ![field] =
                          ColumnsAtLoc(columns, columns_lower, columns_lower[loc])])

\* ColumnMapper.auto_detect_columns(df)
auto_detect_columns(columns) ==
    IF StrAccessorRaises(columns) THEN [raised |-> TRUE, mapping |-> ColumnMapping]
    ELSE LET columns_lower == IndexStrStrip(IndexStrLower(columns, 1), 1)
         IN  DetectLoop(columns, columns_lower, 1, ColumnMapping)

(***************************************************************************)
(* Datasets handed to ColumnMapper                                         *)
(***************************************************************************)

\* the sequences of at most n distinct labels
RECURSIVE DistinctSeqs(_, _)
DistinctSeqs(labels, n) ==
    IF n = 0 THEN {<<>>}
    ELSE LET shorter == DistinctSeqs(labels, n - 1)
         IN  shorter \cup
             {Append(s, l) : s \in {t \in shorter : Len(t) = n - 1},
                             l \in labels}
HasNoRepeat(s) == \A i, j \in 1..Len(s) : s[i] = s[j] => i = j
ColumnSeqs(labels, n) == {s \in DistinctSeqs(labels, n) : HasNoRepeat(s)}

NotDetected == [called |-> FALSE, raised |-> FALSE, mapping |-> ColumnMapping]

MapperInit ==
    /\ df \in ColumnSeqs(MapperLabels, MaxCols)
    /\ detected = NotDetected

\* mapping = ColumnMapper.auto_detect_columns(df)
AutoDetect ==
    /\ ~detected.called
    /\ LET r == auto_detect_columns(df)
       IN  detected' = [called |-> TRUE, raised |-> r.raised, mapping |-> r.mapping]
    /\ UNCHANGED df

(***************************************************************************)
(* DataFrames: columns (labels, in order) and rows (one cell per column)   *)
(***************************************************************************)
Missing == "NaN"

DataFrame(columns, rows) == [loaded |-> TRUE, columns |-> columns, rows |-> rows]
\* self.data = None
NoData == [loaded |-> FALSE, columns |-> <<>>, rows |-> <<>>]

RECURSIVE SelectAt(_, _, _)
\* the elements s[i], i from k on, whose index is in keep
SelectAt(s, keep, k) ==
    IF k > Len(s) THEN <<>>
    ELSE (IF k \in keep THEN <<s[k]>> ELSE <<>>) \o SelectAt(s, keep, k + 1)

\* df.drop_duplicates(): a row equal to an earlier row goes; a frame with
\* no column is returned as it is
drop_duplicates(d) ==
    LET first == {k \in 1..Len(d.rows) : \A j \in 1..(k - 1) : d.rows[j] # d.rows[k]}
    IN  IF Len(d.columns) = 0 THEN d
        ELSE [d EXCEPT !.rows = SelectAt(d.rows, first, 1)]

\* df.dropna(): a row with a missing cell goes
dropna_rows(d) ==
    LET full == {k \in 1..Len(d.rows) :
                    \A c \in 1..Len(d.columns) : d.rows[k][c] # Missing}
    IN  [d EXCEPT !.rows = SelectAt(d.rows, full, 1)]

\* df.dropna(axis=1): a column with a missing cell goes
dropna_cols(d) ==
    LET full == {c \in 1..Len(d.columns) :
                    \A k \in 1..Len(d.rows) : d.rows[k][c] # Missing}
    IN  [d EXCEPT !.columns = SelectAt(d.columns, full, 1),
                  !.rows = [k \in 1..Len(d.rows) |-> SelectAt(d.rows[k], full, 1)]]

\* DataCleaner.remove_duplicates(df)
remove_duplicates(d) == drop_duplicates(d)

\* DataCleaner.handle_missing_values(df, strategy)
handle_missing_values(d, strategy) ==
    IF strategy = "drop_rows" THEN dropna_rows(d)
    ELSE IF strategy = "drop_cols" THEN dropna_cols(d)
    ELSE d

\* column_name in df.columns
InColumns(label, d) == \E i \in 1..Len(d.columns) : d.columns[i] = label

(***************************************************************************)
(* Analysis operations of restaurant_data_foundation.py                    *)
(***************************************************************************)
\* The dict an analysis operation returns, by the key that tells what it
\* is: "error" or "skipped" with its text or type, "ok" for the figures.
AResult(key, tag) == [key |-> key, tag |-> tag]
Figures == AResult("ok", "")
\* an operation that raised returns nothing
Raised == AResult("raised", "")

\* bool(value) of a ColumnMapping field: None is false, a label is true, and
\* the truth value of an Index of several labels raises ValueError.
Truth(value) ==
    CASE value.kind = "none" -> "false"
      [] value.kind = "label" -> "true"
      [] value.kind = "index" -> "raise"

\* df[value] where value is the label held by a mapping field
Selects(value, d) == value.kind = "label" /\ InColumns(value.cols[1], d)

\* SalesAnalyzer.calculate_basic_metrics(df, mapping)
calculate_basic_metrics(d, m) ==
    CASE Truth(m["price"]) = "raise" -> Raised
      [] Truth(m["price"]) = "false" -> AResult("error", "Price column required")
      [] OTHER -> IF Selects(m["price"], d) THEN Figures ELSE Raised

\* df_temp.dropna(subset=['clean_date', 'clean_price']) leaves a row.  With
\* no row left, min() and max() of date_only are NaN and  (max - min).days
\* raises AttributeError.
HasValidRow(d, date, price) ==
    \E k \in 1..Len(d.rows) :
        \A c \in 1..Len(d.columns) :
            d.columns[c] \in {date, price} => d.rows[k][c] # Missing

\* SalesAnalyzer.analyze_temporal_patterns(df, mapping)
analyze_temporal_patterns(d, m) ==
    CASE Truth(m["date"]) = "raise" -> Raised
      [] Truth(m["date"]) = "false" -> AResult("error", "Date and price columns required")
      [] Truth(m["price"]) = "raise" -> Raised
      [] Truth(m["price"]) = "false" -> AResult("error", "Date and price columns required")
      [] OTHER -> IF /\ Selects(m["date"], d) /\ Selects(m["price"], d)
                     /\ HasValidRow(d, m["date"].cols[1], m["price"].cols[1])
                  THEN Figures ELSE Raised

\* The cells read_csv parses as numbers; every other cell that is not
\* missing is text.
NumericCells == {"5"}
IsText(cell) == cell # Missing /\ cell \notin NumericCells

\* the position of a column of d
ColumnIndex(d, label) == CHOOSE c \in 1..Len(d.columns) : d.columns[c] = label

\* The dtype of a column is object: it has a text cell, or no cell at all.
\* The .str accessor of clean_text_column raises on any other column.
ObjectDtype(d, label) ==
    \/ Len(d.rows) = 0
    \/ \E k \in 1..Len(d.rows) : IsText(d.rows[k][ColumnIndex(d, label)])

\* SalesAnalyzer.analyze_item_performance(df, mapping)
analyze_item_performance(d, m) ==
    CASE Truth(m["item_name"]) = "raise" -> Raised
      [] Truth(m["item_name"]) = "false" -> AResult("error", "Item name column required")
      [] ~Selects(m["item_name"], d) -> Raised
      [] ~ObjectDtype(d, m["item_name"].cols[1]) -> Raised
      [] Truth(m["price"]) = "raise" -> Raised
      [] Truth(m["price"]) = "false" -> Figures
      [] OTHER -> IF Selects(m["price"], d) THEN Figures ELSE Raised

\* df.groupby(order_id) has a group: a row with an order id.  With no group
\* max() of the counts is NaN and int(NaN) raises ValueError.
HasOrder(d, order_id) ==
    \E k \in 1..Len(d.rows) : d.rows[k][ColumnIndex(d, order_id)] # Missing

\* the sum of the price column is a number: no cell of it is text (the
\* column is not cleaned here)
Summable(d, price) ==
    \A k \in 1..Len(d.rows) : ~IsText(d.rows[k][ColumnIndex(d, price)])

\* OrderAnalyzer.analyze_order_composition(df, mapping).  Without a price
\* column the aggregation has plain (not two-level) column labels, which
\* '_'.join(col) turns into "i_t_e_m": order_stats[items_col] is a KeyError.
analyze_order_composition(d, m) ==
    CASE Truth(m["order_id"]) = "raise" -> Raised
      [] Truth(m["order_id"]) = "false" -> AResult("error", "Order ID column required")
      [] Truth(m["price"]) = "raise" -> Raised
      [] Truth(m["price"]) = "true" ->
            IF /\ Selects(m["order_id"], d) /\ Selects(m["price"], d)
               /\ m["price"].cols[1].isstr
               /\ HasOrder(d, m["order_id"].cols[1])
               /\ Summable(d, m["price"].cols[1])
            THEN Figures ELSE Raised
      [] OTHER -> Raised

\* DataLoader.inspect_data(df): col.lower() on every column label
inspect_data_raises(d) == \E i \in 1..Len(d.columns) : ~d.columns[i].isstr

\* self.report = None
NoReport == [isNone |-> TRUE, column_mapping |-> ColumnMapping,
             basic_metrics |-> Raised, temporal_analysis |-> Raised,
             item_performance |-> Raised, order_analysis |-> Raised]

\* ReportGenerator.generate_summary_report(df, mapping): the report, or
\* isNone when one of the calls in the dict display raised.
generate_summary_report(d, m) ==
    LET basic == calculate_basic_metrics(d, m)
        temporal == analyze_temporal_patterns(d, m)
        item == analyze_item_performance(d, m)
        order == analyze_order_composition(d, m)
    IN  IF \/ inspect_data_raises(d)
           \/ Raised \in {basic, temporal, item, order}
        THEN NoReport
        ELSE [isNone |-> FALSE, column_mapping |-> m,
              basic_metrics |-> basic, temporal_analysis |-> temporal,
              item_performance |-> item, order_analysis |-> order]

(***************************************************************************)
(* RestaurantDataAnalyzer                                                  *)
(***************************************************************************)
\* self.mapping = None
NoMapping == [isNone |-> TRUE, fields |-> ColumnMapping]
Mapped(m) == [isNone |-> FALSE, fields |-> m]

\* what the last operation did: the operation, its keyword arguments, whether
\* it raised, and what it returned (an analysis result, or a tag for another
\* kind of value)
NoArgs == [f \in {} |-> ""]
Call(op, args, raised, ret) == [op |-> op, args |-> args, raised |-> raised, ret |-> ret]
Outcome(op, raised, ret) == Call(op, NoArgs, raised, ret)
Tag(t) == AResult("value", t)

AnalyzerInit ==
    /\ data = NoData
    /\ mapping = NoMapping
    /\ report = NoReport
    /\ result = Outcome("init", FALSE, Tag("None"))

\* ---- the files load_data is given ----
MaxDataCols == 2
MaxRows == 1

Cells == {Missing, "5"}

\* the sequences of at most n elements of S
RECURSIVE SeqsUpTo(_, _)
SeqsUpTo(S, n) ==
    IF n = 0 THEN {<<>>}
    ELSE LET shorter == SeqsUpTo(S, n - 1)
         IN  shorter \cup {Append(s, x) : s \in {t \in shorter : Len(t) = n - 1}, x \in S}

\* The order the columns of a file come in.  No operation of the analyzer
\* depends on the order of these columns (no two of them contain a keyword of
\* the same field unless their normalized names are equal), so one order
\* stands for all.
AnalyzerColumnOrder == <<StrLabel("price"), StrLabel("Price "), StrLabel("Order Date")>>
ColumnPosition(label) ==
    CHOOSE i \in 1..Len(AnalyzerColumnOrder) : AnalyzerColumnOrder[i] = label
InOrder(columns) ==
    \A i, j \in 1..Len(columns) :
        i < j => ColumnPosition(columns[i]) < ColumnPosition(columns[j])

\* the columns a file of the analyzer can have
AnalyzerColumnSeqs == {s \in ColumnSeqs(AnalyzerLabels, MaxDataCols) : InOrder(s)}

\* The rows of a file with n columns, numbered; a file lists its rows by
\* rising number, equal rows included: no operation of the analyzer depends
\* on the order of the rows.
RECURSIVE RowCodeTo(_, _)
RowCodeTo(row, c) ==
    IF c = 0 THEN 0
    ELSE 2 * RowCodeTo(row, c - 1) + (IF row[c] = Missing THEN 0 ELSE 1)
RowCode(row) == RowCodeTo(row, Len(row))
Rising(rows) ==
    \A i, j \in 1..Len(rows) : i < j => RowCode(rows[i]) <= RowCode(rows[j])

FramesOver(colseqs, maxrows) ==
    UNION {{DataFrame(columns, rows) :
                rows \in {r \in SeqsUpTo([1..Len(columns) -> Cells], maxrows) : Rising(r)}} :
           columns \in colseqs \ {<<>>}}

\* a path DataLoader.load_file raises for: no such file, an extension that
\* is not .csv, .xlsx or .xls, or a CSV no encoding decodes
BadFile == [readable |-> FALSE, frame |-> NoData]
GoodFile(frame) == [readable |-> TRUE, frame |-> frame]

AnalyzerFiles ==
    {BadFile} \cup {GoodFile(f) : f \in FramesOver(AnalyzerColumnSeqs, MaxRows)}

\* ColumnMapper.auto_detect_columns tabulated over the columns a frame of
\* the analyzer can have
DetectedTable == [columns \in AnalyzerColumnSeqs |-> auto_detect_columns(columns)]
DetectedColumns(columns) ==
    IF columns \in AnalyzerColumnSeqs THEN DetectedTable[columns]
    ELSE auto_detect_columns(columns)

\* the keyword arguments given to set_column_mapping
ManualFields == {"price", "date"}
ManualColumns == {"price", "Amount"}
ManualKwargs == UNION {[D -> ManualColumns] : D \in SUBSET ManualFields}

\* (mutant of create_manual_mapping: a pair is kept only when the column
\* name contains a keyword of the field)
create_manual_mapping_checked(kwargs) ==
    [f \in Fields |->
        IF f \in DOMAIN kwargs /\ AnyKeyword(DETECTION_PATTERNS(f), Lower(kwargs[f]))
        THEN OneLabel(StrLabel(kwargs[f])) ELSE None]

\* ColumnMapper.create_manual_mapping(**kwargs) = ColumnMapping(**kwargs)
create_manual_mapping(kwargs) ==
    [f \in Fields |-> IF f \in DOMAIN kwargs THEN OneLabel(StrLabel(kwargs[f])) ELSE None]

\* the argument of load_data, by what opening the file does
FilePath(kind) == [file_path |-> kind]

\* (mutant of LoadData: the exception of DataLoader.load_file is not caught)
LoadDataUncaught(file) ==
    /\ IF file.readable
       THEN /\ data' = file.frame
            /\ result' = Call("load_data", FilePath("readable"), FALSE, Tag("True"))
       ELSE /\ data' = data
            /\ result' = Call("load_data", FilePath("unreadable"), TRUE, Raised)
    /\ UNCHANGED <<mapping, report>>

\* RestaurantDataAnalyzer.load_data(file_path)
LoadData(file) ==
    /\ IF file.readable
       THEN /\ data' = file.frame
            /\ result' = Call("load_data", FilePath("readable"), FALSE, Tag("True"))
       ELSE /\ data' = data
            /\ result' = Call("load_data", FilePath("unreadable"), FALSE, Tag("False"))
    /\ UNCHANGED <<mapping, report>>

\* the print loop of auto_map_columns:  if column:  on every field
PrintLoopRaises(m) == \E f \in Fields : Truth(m[f]) = "raise"

\* RestaurantDataAnalyzer.auto_map_columns()
AutoMapColumns ==
    /\ IF ~data.loaded
       THEN /\ mapping' = mapping
            /\ result' = Outcome("auto_map_columns", FALSE, Tag("None"))
       ELSE LET r == DetectedColumns(data.columns)
            IN  IF r.raised
                THEN /\ mapping' = mapping
                     /\ result' = Outcome("auto_map_columns", TRUE, Raised)
                ELSE /\ mapping' = Mapped(r.mapping)
                     /\ result' = IF PrintLoopRaises(r.mapping)
                                  THEN Outcome("auto_map_columns", TRUE, Raised)
                                  ELSE Outcome("auto_map_columns", FALSE, Tag("mapping"))
    /\ UNCHANGED <<data, report>>

\* RestaurantDataAnalyzer.set_column_mapping(**kwargs)
SetColumnMapping(kwargs) ==
    /\ mapping' = Mapped(create_manual_mapping(kwargs))
    /\ result' = Call("set_column_mapping", kwargs, FALSE, Tag("mapping"))
    /\ UNCHANGED <<data, report>>

Strategies == {"report", "drop_rows", "drop_cols"}

\* RestaurantDataAnalyzer.clean_data(remove_duplicates, handle_missing)
CleanData(dedup, strategy) ==
    /\ IF ~data.loaded
       THEN /\ data' = data
            /\ result' = Outcome("clean_data", FALSE, Tag("None"))
       ELSE /\ data' = handle_missing_values(
                           IF dedup THEN remove_duplicates(data) ELSE data, strategy)
            /\ result' = Outcome("clean_data", FALSE, Tag("data"))
    /\ UNCHANGED <<mapping, report>>

\* RestaurantDataAnalyzer.generate_analysis()
GenerateAnalysis ==
    /\ IF ~data.loaded \/ mapping.isNone
       THEN /\ report' = report
            /\ result' = Outcome("generate_analysis", FALSE,
                                 AResult("error", "Data and column mapping required"))
       ELSE LET r == generate_summary_report(data, mapping.fields)
            IN  IF r.isNone
                THEN /\ report' = report
                     /\ result' = Outcome("generate_analysis", TRUE, Raised)
                ELSE /\ report' = r
                     /\ result' = Outcome("generate_analysis", FALSE, Tag("report"))
    /\ UNCHANGED <<data, mapping>>

MapperIdle == df = <<>> /\ detected = NotDetected

\* no function has been called on its own
NotCalled == [called |-> FALSE]
PureIdle == input = <<>> /\ output = NotCalled

(***************************************************************************)
(* RestaurantDataAI (Data-Analysis-Tool-main/Data Analysis Tool)           *)
(***************************************************************************)
AiFields == {"date", "item_name", "price", "quantity", "category", "payment",
             "employee", "order_id", "customer"}

\* the keys of patterns in _auto_detect_columns, in their order
AiPatternOrder == <<"date", "item_name", "price", "quantity", "category",
                    "payment", "employee", "order_id", "customer">>

patterns(field) ==
    CASE field = "date" -> {"date", "time", "created", "order_date", "timestamp", "day", "week", "month"}
      [] field = "item_name" -> {"item", "product", "menu", "name", "description", "dish"}
      [] field = "price" -> {"price", "amount", "total", "cost", "revenue", "sales", "value"}
      [] field = "quantity" -> {"qty", "quantity", "count", "units", "orders", "sold"}
      [] field = "category" -> {"category", "type", "group", "section", "department"}
      [] field = "payment" -> {"payment", "method", "card", "cash", "tender"}
      [] field = "employee" -> {"employee", "staff", "server", "cashier", "waiter"}
      [] field = "order_id" -> {"order", "ticket", "transaction", "receipt", "id"}
      [] field = "customer" -> {"customer", "guest", "phone", "email", "patron"}

\* self.column_mapping = {}: a field that is no key of the dict holds None
EmptyMapping == [f \in AiFields |-> None]

\* The loop of _auto_detect_columns from the k-th pattern on; w holds the
\* assignments  self.column_mapping[data_type] = ...  made so far (None:
\* the key was not assigned).
RECURSIVE AiDetectLoop(_, _, _, _)
AiDetectLoop(columns, columns_lower, k, w) ==
    IF k > Len(AiPatternOrder) THEN [raised |-> FALSE, writes |-> w]
    ELSE LET field == AiPatternOrder[k]
             loc == ScanColumns(patterns(field), columns_lower, 1)
         IN  IF loc = -1 THEN [raised |-> TRUE, writes |-> w]
             ELSE IF loc = 0 THEN AiDetectLoop(columns, columns_lower, k + 1, w)
             ELSE AiDetectLoop(columns, columns_lower, k + 1,
                      [w EXCEPT ![field] =
                          ColumnsAtLoc(columns, columns_lower, columns_lower[loc])])

\* The assignments RestaurantDataAI._auto_detect_columns() makes to
\* self.column_mapping for self.data.columns, and whether it raised.
DetectedWrites(columns) ==
    IF StrAccessorRaises(columns) THEN [raised |-> TRUE, writes |-> EmptyMapping]
    ELSE LET columns_lower == IndexStrLower(columns, 1)
         IN  AiDetectLoop(columns, columns_lower, 1, EmptyMapping)

summary_indicators == {"total", "sum", "average", "count", "daily", "weekly", "monthly"}
transaction_indicators == {"order_id", "transaction_id", "timestamp", "receipt"}

\* [col.lower() for col in self.data.columns], from column i on
RECURSIVE LowerList(_, _)
LowerList(columns, i) ==
    IF i > Len(columns) THEN <<>>
    ELSE <<Lower(columns[i].text)>> \o LowerList(columns, i + 1)

\* sum(1 for col in columns_lower if any(indicator in col ...)), from column i
RECURSIVE Score(_, _, _)
Score(indicators, columns_lower, i) ==
    IF i > Len(columns_lower) THEN 0
    ELSE (IF AnyKeyword(indicators, columns_lower[i]) THEN 1 ELSE 0)
         + Score(indicators, columns_lower, i + 1)

\* (mutant of LabelOf: a tie of the two scores counts as summary)
LabelOfTieSummary(summary_score, transaction_score) ==
    IF summary_score >= transaction_score THEN "summary"
    ELSE IF transaction_score > summary_score THEN "transaction"
    ELSE "mixed"

\* the label _determine_data_type chooses from the two scores
LabelOf(summary_score, transaction_score) ==
    IF summary_score > transaction_score THEN "summary"
    ELSE IF transaction_score > summary_score THEN "transaction"
    ELSE "mixed"

\* RestaurantDataAI._determine_data_type() on self.data.columns: the label
\* it stores, or that col.lower() raised on a label that is no str.
DeterminedType(columns) ==
    IF \E i \in 1..Len(columns) : ~columns[i].isstr
    THEN [raised |-> TRUE, label |-> "unknown"]
    ELSE LET columns_lower == LowerList(columns, 1)
         IN  [raised |-> FALSE,
              label |-> LabelOf(Score(summary_indicators, columns_lower, 1),
                                Score(transaction_indicators, columns_lower, 1))]

\* The body of the try block of analyze_sales_trends: the figures, or the
\* exception it raises (a KeyError for a column the frame lacks, to_datetime
\* given several columns, the sum of a datetime column, idxmax of an empty
\* grouping when no row has a date).
SalesTrendsComputed(d, cm) ==
    /\ Selects(cm["date"], d)
    /\ Selects(cm["price"], d)
    /\ cm["date"] # cm["price"]
    /\ LET c == CHOOSE c \in 1..Len(d.columns) : d.columns[c] = cm["date"].cols[1]
       IN  \E k \in 1..Len(d.rows) : d.rows[k][c] # Missing

\* (mutant of analyze_sales_trends: the columns are checked before the data
\* type)
analyze_sales_trends_columns_first(d, cm, dt) ==
    IF cm["date"] = None \/ cm["price"] = None
    THEN AResult("skipped", "missing_columns")
    ELSE IF dt = "summary" THEN AResult("skipped", "summary_data")
    ELSE IF SalesTrendsComputed(d, cm) THEN Figures
    ELSE AResult("error", "Analysis failed")

\* RestaurantDataAI.analyze_sales_trends()
analyze_sales_trends(d, cm, dt) ==
    IF dt = "summary" THEN AResult("skipped", "summary_data")
    ELSE IF cm["date"] = None \/ cm["price"] = None
    THEN AResult("skipped", "missing_columns")
    ELSE IF SalesTrendsComputed(d, cm) THEN Figures
    ELSE AResult("error", "Analysis failed")

\* The body of the try block of analyze_menu_performance.
MenuPerformanceComputed(d, cm) ==
    /\ Selects(cm["item_name"], d)
    /\ Selects(cm["price"], d)
    /\ cm["price"].cols[1].isstr
    /\ Truth(cm["quantity"]) # "raise"

\* RestaurantDataAI.analyze_menu_performance()
analyze_menu_performance(d, cm, dt) ==
    IF dt = "summary" THEN AResult("skipped", "summary_data")
    ELSE IF cm["item_name"] = None \/ cm["price"] = None
    THEN AResult("skipped", "missing_columns")
    ELSE IF MenuPerformanceComputed(d, cm) THEN Figures
    ELSE AResult("error", "Menu analysis failed")

\* ---- the files RestaurantDataAI.load_data is given ----

\* DetectedWrites and DeterminedType tabulated over the columns of the files
AiColumnSeqs == ColumnSeqs(AiLabels, MaxDataCols)
AiDetectedTable == [columns \in AiColumnSeqs |-> DetectedWrites(columns)]
AiTypeTable == [columns \in AiColumnSeqs |-> DeterminedType(columns)]

\* RestaurantDataAI._auto_detect_columns(): self.column_mapping after it,
\* from self.column_mapping before (cm), and whether it raised
_auto_detect_columns(columns, cm) ==
    LET d == IF columns \in AiColumnSeqs THEN AiDetectedTable[columns]
             ELSE DetectedWrites(columns)
    IN  [raised |-> d.raised,
         mapping |-> [f \in AiFields |-> IF d.writes[f] # None THEN d.writes[f] ELSE cm[f]]]

\* RestaurantDataAI._determine_data_type()
_determine_data_type(columns) ==
    IF columns \in AiColumnSeqs THEN AiTypeTable[columns] ELSE DeterminedType(columns)

\* the rows of the files: none, or one row with a value in every column
AiRows(columns) == {<<>>, <<[c \in 1..Len(columns) |-> "5"]>>}
AiFrames ==
    UNION {{DataFrame(columns, rows) : rows \in AiRows(columns)} :
           columns \in AiColumnSeqs \ {<<>>}}

\* a path with an extension load_data does not support
UnsupportedFile == [supported |-> FALSE, readable |-> FALSE, frame |-> NoData]
\* a .csv or .xlsx path that pandas fails to read
UnreadableFile == [supported |-> TRUE, readable |-> FALSE, frame |-> NoData]
ReadableFile(frame) == [supported |-> TRUE, readable |-> TRUE, frame |-> frame]

AiFiles ==
    {UnsupportedFile, UnreadableFile}
    \cup {ReadableFile(f) : f \in AiFrames}

AiInit ==
    /\ ai_data = NoData
    /\ column_mapping = EmptyMapping
    /\ data_type = "unknown"
    /\ ai_result = Outcome("init", FALSE, Tag("None"))

\* RestaurantDataAI.load_data(file_path)
AiLoadData(file) ==
    IF ~file.supported \/ ~file.readable
    THEN /\ ai_result' = Call("load_data",
                               FilePath(IF file.supported THEN "unreadable" ELSE "unsupported"),
                               FALSE, Tag("False"))
         /\ UNCHANGED <<ai_data, column_mapping, data_type>>
    ELSE LET det == _auto_detect_columns(file.frame.columns, column_mapping)
             typ == _determine_data_type(file.frame.columns)
         IN  /\ ai_data' = file.frame
             /\ column_mapping' = det.mapping
             /\ data_type' = IF det.raised \/ typ.raised THEN data_type ELSE typ.label
             /\ ai_result' = Call("load_data", FilePath("readable"), FALSE,
                                  IF det.raised \/ typ.raised
                                  THEN Tag("False") ELSE Tag("True"))

AiAnalyzeSalesTrends ==
    /\ ai_result' = Outcome("analyze_sales_trends", FALSE,
                            analyze_sales_trends(ai_data, column_mapping, data_type))
    /\ UNCHANGED <<ai_data, column_mapping, data_type>>

AiAnalyzeMenuPerformance ==
    /\ ai_result' = Outcome("analyze_menu_performance", FALSE,
                            analyze_menu_performance(ai_data, column_mapping, data_type))
    /\ UNCHANGED <<ai_data, column_mapping, data_type>>

(***************************************************************************)
(* SimpleAnalyzerGUI (simple_gui_analyzer.py) over a RestaurantDataAI      *)
(***************************************************************************)
MaxWorkers == 2
Workers == 1..MaxWorkers

\* the files the user picks in the file dialog: a path load_data does not
\* support, one pandas fails to read, and readable files with one row
GuiColumnSeqs ==
    {<<StrLabel("timestamp"), StrLabel("daily_total")>>,
     <<StrLabel("daily_total")>>,
     <<StrLabel("item")>>}
GuiFiles ==
    {UnsupportedFile, UnreadableFile}
    \cup {ReadableFile(DataFrame(columns, <<[c \in 1..Len(columns) |-> "5"]>>)) :
            columns \in GuiColumnSeqs}

\* self.current_file
NoFile == [isNone |-> TRUE, file |-> UnsupportedFile]
Chosen(file) == [isNone |-> FALSE, file |-> file]

\* a thread running run_analysis(file_path, sheet_name): where it is, the
\* file it was given, what the two analyses returned to it, and how it ended
NotStarted == [pc |-> "idle", file |-> UnsupportedFile,
               sales_data |-> Tag("None"), menu_data |-> Tag("None"), ended |-> "no"]
Started(file) == [NotStarted EXCEPT !.pc = "load", !.file = file]

\* SimpleAnalyzerGUI.__init__ and setup_gui; after holds the callbacks given
\* to root.after(0, ...) that the main loop has not run yet
GuiInit ==
    /\ gui = [current_file |-> NoFile, analyze_button |-> "disabled",
              export_button |-> "disabled", progress |-> "stopped", after |-> {}]
    /\ workers = [w \in Workers |-> NotStarted]
GuiIdle == GuiInit

\* SimpleAnalyzerGUI.browse_file(): the dialog returned file.  For an Excel
\* path load_excel_sheets enables the button unless pd.ExcelFile raises.
BrowseFile(file, sheets_raise) ==
    /\ gui' = [gui EXCEPT !.current_file = Chosen(file),
                          !.analyze_button =
                              IF sheets_raise /\ file = UnreadableFile THEN @ ELSE "normal"]
    /\ UNCHANGED <<workers, aiVars>>

\* SimpleAnalyzerGUI.analyze_current_selection(), the command of the Analyze
\* button: Tk calls it only while the button is not disabled
AnalyzeCurrentSelection ==
    /\ gui.analyze_button = "normal"
    /\ \E w \in Workers :
          /\ workers[w].pc = "idle"
          /\ \A v \in Workers : v < w => workers[v].pc # "idle"
          /\ IF gui.current_file.isNone
             THEN UNCHANGED <<gui, workers>>
             ELSE /\ gui' = [gui EXCEPT !.progress = "started",
                                        !.analyze_button = "disabled"]
                  /\ workers' = [workers EXCEPT ![w] = Started(gui.current_file.file)]
    /\ UNCHANGED aiVars

\* run_analysis: success = self.analyzer.load_data(file_path), and with
\* success the overview and generate_ai_insights(), which change nothing
RunLoad(w) ==
    /\ workers[w].pc = "load"
    /\ AiLoadData(workers[w].file)
    /\ workers' = [workers EXCEPT
                      ![w].pc = IF ai_result'.ret = Tag("True") THEN "sales" ELSE "finally",
                      ![w].ended = IF ai_result'.ret = Tag("True") THEN "no" ELSE "failed"]
    /\ UNCHANGED gui

\* 'error' not in result, and then result['total_revenue'] (or
\* result['total_unique_items']): a KeyError when the result is skipped
ReadsMissingKey(r) == r.key = "skipped"

\* run_analysis: sales_data = self.analyzer.analyze_sales_trends() and the
\* branch on it; an exception goes to the except clause
RunSales(w) ==
    /\ workers[w].pc = "sales"
    /\ AiAnalyzeSalesTrends
    /\ workers' = [workers EXCEPT
                      ![w].sales_data = ai_result'.ret,
                      ![w].pc = IF ReadsMissingKey(ai_result'.ret) THEN "finally" ELSE "menu",
                      ![w].ended = IF ReadsMissingKey(ai_result'.ret) THEN "error" ELSE "no"]
    /\ UNCHANGED gui

\* run_analysis: menu_data = self.analyzer.analyze_menu_performance(), the
\* branch on it, and the completion message with the export button
RunMenu(w) ==
    /\ workers[w].pc = "menu"
    /\ AiAnalyzeMenuPerformance
    /\ workers' = [workers EXCEPT
                      ![w].menu_data = ai_result'.ret,
                      ![w].pc = "finally",
                      ![w].ended = IF ReadsMissingKey(ai_result'.ret) THEN "error"
                                   ELSE "complete"]
    /\ gui' = IF ReadsMissingKey(ai_result'.ret) THEN gui
              ELSE [gui EXCEPT !.after = @ \cup {"export_button"}]

\* run_analysis: the finally clause
RunFinally(w) ==
    /\ workers[w].pc = "finally"
    /\ workers' = [workers EXCEPT ![w].pc = "done"]
    /\ gui' = [gui EXCEPT !.after = @ \cup {"progress", "analyze_button"}]
    /\ UNCHANGED aiVars

\* the main loop runs a callback of root.after
MainLoop(callback) ==
    /\ callback \in gui.after
    /\ gui' = [gui EXCEPT !.after = @ \ {callback},
                          !.progress = IF callback = "progress" THEN "stopped" ELSE @,
                          !.analyze_button = IF callback = "analyze_button" THEN "normal" ELSE @,
                          !.export_button = IF callback = "export_button" THEN "normal" ELSE @]
    /\ UNCHANGED <<workers, aiVars>>

GuiNext ==
    \/ (\E file \in GuiFiles, sheets_raise \in BOOLEAN : BrowseFile(file, sheets_raise))
          /\ UNCHANGED <<mapperVars, analyzerVars, pureVars>>
    \/ AnalyzeCurrentSelection /\ UNCHANGED <<mapperVars, analyzerVars, pureVars>>
    \/ (\E w \in Workers : RunLoad(w)) /\ UNCHANGED <<mapperVars, analyzerVars, pureVars>>
    \/ (\E w \in Workers : RunSales(w)) /\ UNCHANGED <<mapperVars, analyzerVars, pureVars>>
    \/ (\E w \in Workers : RunMenu(w)) /\ UNCHANGED <<mapperVars, analyzerVars, pureVars>>
    \/ (\E w \in Workers : RunFinally(w)) /\ UNCHANGED <<mapperVars, analyzerVars, pureVars>>
    \/ (\E callback \in {"progress", "analyze_button", "export_button"} : MainLoop(callback))
          /\ UNCHANGED <<mapperVars, analyzerVars, pureVars>>

(***************************************************************************)
(* Specifications                                                          *)
(***************************************************************************)
\* ColumnMapper.auto_detect_columns as a function of the column labels
MapperSpecInit == MapperInit /\ AnalyzerInit /\ AiInit /\ GuiIdle /\ PureIdle
MapperNext == AutoDetect /\ UNCHANGED <<analyzerVars, aiVars, pureVars, guiVars>>
SpecMapper == MapperSpecInit /\ [][MapperNext]_vars

\* a RestaurantDataAnalyzer and the calls made on it
Init == MapperIdle /\ AnalyzerInit /\ AiInit /\ GuiIdle /\ PureIdle
Next ==
    \/ (\E file \in AnalyzerFiles : LoadData(file)) /\ UNCHANGED <<mapperVars, aiVars, pureVars, guiVars>>
    \/ AutoMapColumns /\ UNCHANGED <<mapperVars, aiVars, pureVars, guiVars>>
    \/ (\E kwargs \in ManualKwargs : SetColumnMapping(kwargs)) /\ UNCHANGED <<mapperVars, aiVars, pureVars, guiVars>>
    \/ (\E dedup \in BOOLEAN, strategy \in Strategies : CleanData(dedup, strategy))
          /\ UNCHANGED <<mapperVars, aiVars, pureVars, guiVars>>
    \/ GenerateAnalysis /\ UNCHANGED <<mapperVars, aiVars, pureVars, guiVars>>
Spec == Init /\ [][Next]_vars

\* load_data called, any number of times, on a RestaurantDataAnalyzer or on
\* a RestaurantDataAI.  The two objects share no state, so the calls on the
\* one are followed with the other left as constructed.
LoadNext ==
    \/ /\ ai_result.op = "init"
       /\ \E file \in AnalyzerFiles : LoadData(file)
       /\ UNCHANGED <<mapperVars, aiVars, pureVars, guiVars>>
    \/ /\ result.op = "init"
       /\ \E file \in AiFiles : AiLoadData(file)
       /\ UNCHANGED <<mapperVars, analyzerVars, pureVars, guiVars>>
SpecLoad == Init /\ [][LoadNext]_vars

\* a RestaurantDataAI and the calls made on it
AiNext ==
    \/ (\E file \in AiFiles : AiLoadData(file)) /\ UNCHANGED <<mapperVars, analyzerVars, pureVars, guiVars>>
    \/ AiAnalyzeSalesTrends /\ UNCHANGED <<mapperVars, analyzerVars, pureVars, guiVars>>
    \/ AiAnalyzeMenuPerformance /\ UNCHANGED <<mapperVars, analyzerVars, pureVars, guiVars>>
SpecAI == Init /\ [][AiNext]_vars

\* a SimpleAnalyzerGUI, its user and the threads it starts
SpecGui == Init /\ [][GuiNext]_vars

(***************************************************************************)
(* Properties of ColumnMapper.auto_detect_columns (SpecMapper)             *)
(***************************************************************************)
Returned == detected.called /\ ~detected.raised

\* the name a column is matched by: lowercased and whitespace-trimmed
NormalizedName(label) == Strip(Lower(label.text))

\* column i of df has a name that contains a keyword of the field
IsMatch(field, i) ==
    /\ df[i].isstr
    /\ \E kw \in DETECTION_PATTERNS(field) : Contains(NormalizedName(df[i]), kw)

HasMatch(field) == \E i \in 1..Len(df) : IsMatch(field, i)

\* the leftmost column of df that matches the field
Leftmost(field) ==
    CHOOSE i \in 1..Len(df) :
        IsMatch(field, i) /\ \A j \in 1..(i - 1) : ~IsMatch(field, j)

IsColumnOfDf(value) ==
    value.kind = "label" /\ \E i \in 1..Len(df) : df[i] = value.cols[1]

\* C1: every non-empty value of the mapping auto_detect_columns returns is
\* exactly one of the dataset's column labels.
C1_MappedValuesAreColumnLabels ==
    Returned =>
        \A f \in Fields : detected.mapping[f] # None => IsColumnOfDf(detected.mapping[f])

\* C3: each field is mapped to the leftmost column whose normalized name
\* contains one of the field's keywords, and is unmapped exactly when no
\* column contains any of them.
C3_LeftmostKeywordMatch ==
    Returned =>
        \A f \in Fields :
            detected.mapping[f] =
                IF HasMatch(f) THEN OneLabel(df[Leftmost(f)]) ELSE None

HasPriceColumn == \E i \in 1..Len(df) : df[i] = StrLabel("price")

C5_NeverRaises == detected.called => ~detected.raised

\* the value a field gets when the detection is run for that field alone
ValueAlone(field) ==
    IF ~HasMatch(field) THEN None
    ELSE LET hits == {j \in 1..Len(df) :
                        df[j].isstr /\ NormalizedName(df[j]) = NormalizedName(df[Leftmost(field)])}
         IN  IF Cardinality(hits) = 1 THEN OneLabel(df[Leftmost(field)])
             ELSE [kind |-> "index", cols |-> SelectAt(df, hits, 1)]

\* C6: no mutual exclusion.  The value of a field does not depend on what the
\* other fields were given, and two fields whose first keyword match is the
\* same column are both given it.
C6_NoMutualExclusion ==
    Returned =>
        /\ \A f \in Fields : detected.mapping[f] = ValueAlone(f)
        /\ \A f, g \in Fields :
               (HasMatch(f) /\ HasMatch(g) /\ Leftmost(f) = Leftmost(g))
                   => (detected.mapping[f] = detected.mapping[g]
                       /\ detected.mapping[f] # None)

C6_Witness ==
    /\ Returned
    /\ detected.mapping["price"] = OneLabel(StrLabel("total_tax_amount"))
    /\ detected.mapping["tax"] = OneLabel(StrLabel("total_tax_amount"))

(***************************************************************************)
(* Properties of RestaurantDataAnalyzer (Spec)                             *)
(***************************************************************************)
\* C2: after any sequence of operations, every column name the analyzer's
\* mapping holds is a column of the dataset the analyzer holds.
C2_MappedColumnsExist ==
    (data.loaded /\ ~mapping.isNone) =>
        \A f \in Fields :
            mapping.fields[f] # None =>
                (mapping.fields[f].kind = "label" /\ InColumns(mapping.fields[f].cols[1], data))

\* C7: set_column_mapping replaces the mapping by exactly the pairs the
\* caller gave: a field not given is unmapped, whatever the mapping was
\* before, and a column name is taken as given, in the dataset or not.
C7_ManualMappingReplaces ==
    result.op = "set_column_mapping" =>
        /\ ~result.raised
        /\ ~mapping.isNone
        /\ \A f \in Fields :
               mapping.fields[f] =
                   IF f \in DOMAIN result.args
                   THEN [kind |-> "label", cols |-> <<[isstr |-> TRUE, text |-> result.args[f]]>>]
                   ELSE [kind |-> "none", cols |-> <<>>]

\* set_column_mapping(date="Amount") on a dataset that has a price column and
\* no Amount column: price is unmapped and date names a column that is not there
C7_Witness ==
    /\ result.op = "set_column_mapping"
    /\ data.loaded
    /\ InColumns(StrLabel("price"), data)
    /\ ~InColumns(StrLabel("Amount"), data)
    /\ DOMAIN result.args = {"date"}
    /\ mapping.fields["date"] = OneLabel(StrLabel("Amount"))
    /\ mapping.fields["price"] = None

\* the report generate_analysis has just stored, for the mapping it was given
Generated ==
    result.op = "generate_analysis" /\ result.ret = Tag("report") /\ ~report.isNone

\* C10: an analysis operation whose required field is unmapped returns a
\* result marked as skipped, not one marked as an error.
C10_MissingFieldsAreSkipped ==
    Generated =>
        /\ mapping.fields["price"] = None => report.basic_metrics.key = "skipped"
        /\ (mapping.fields["date"] = None \/ mapping.fields["price"] = None)
               => report.temporal_analysis.key = "skipped"
        /\ mapping.fields["item_name"] = None => report.item_performance.key = "skipped"
        /\ mapping.fields["order_id"] = None => report.order_analysis.key = "skipped"

(***************************************************************************)
(* Properties of RestaurantDataAI (SpecAI)                                 *)
(***************************************************************************)
\* the columns of the loaded dataset whose lowercased name contains one of
\* the indicators
ColumnsWith(indicators) ==
    {i \in 1..Len(ai_data.columns) :
        \E kw \in indicators : Contains(Lower(ai_data.columns[i].text), kw)}

SummaryCount ==
    Cardinality(ColumnsWith({"total", "sum", "average", "count", "daily", "weekly", "monthly"}))
TransactionCount ==
    Cardinality(ColumnsWith({"order_id", "transaction_id", "timestamp", "receipt"}))

Loaded == ai_result.op = "load_data" /\ ai_result.ret = Tag("True")

\* C8: the label is summary when more columns contain a summary keyword
\* than a transaction keyword, transaction when fewer, and mixed when the
\* two counts are equal, zero included.
C8_LabelFollowsCounts ==
    Loaded =>
        /\ SummaryCount > TransactionCount => data_type = "summary"
        /\ TransactionCount > SummaryCount => data_type = "transaction"
        /\ SummaryCount = TransactionCount => data_type = "mixed"

\* a dataset with one summary and one transaction column is mixed
C8_Witness ==
    /\ Loaded
    /\ SummaryCount = 1
    /\ TransactionCount = 1
    /\ data_type = "mixed"

\* C9: with the label summary, analyze_sales_trends and
\* analyze_menu_performance return the not-applicable result, whatever the
\* column mapping is.
C9_SummarySkips ==
    (ai_result.op \in {"analyze_sales_trends", "analyze_menu_performance"}
        /\ data_type = "summary")
    => (~ai_result.raised /\ ai_result.ret = AResult("skipped", "summary_data"))

\* a summary dataset whose date column is unmapped as well
C9_Witness ==
    /\ ai_result.op = "analyze_sales_trends"
    /\ data_type = "summary"
    /\ column_mapping["date"] = None
    /\ ai_result.ret = AResult("skipped", "summary_data")

(***************************************************************************)
(* OrderAnalyzer.analyze_order_composition(df, mapping) called on its own  *)
(***************************************************************************)
\* the frames and the mappings it is given
OrderColumns == <<StrLabel("order_id"), StrLabel("price"), StrLabel("item")>>
OrderColumnSeqs ==
    {SelectAt(OrderColumns, keep, 1) : keep \in SUBSET (1..Len(OrderColumns))}
OrderFrames == FramesOver(OrderColumnSeqs, MaxRows)
OrderMappings ==
    {[f \in Fields |->
        CASE f = "order_id" /\ "order_id" \in mapped -> OneLabel(StrLabel("order_id"))
          [] f = "price" /\ "price" \in mapped -> OneLabel(StrLabel("price"))
          [] f = "item_name" /\ "item_name" \in mapped -> OneLabel(StrLabel("item"))
          [] OTHER -> None] :
     mapped \in SUBSET {"order_id", "price", "item_name"}}

OrderInit ==
    /\ MapperIdle /\ AnalyzerInit /\ AiInit /\ GuiIdle
    /\ input \in {[df |-> f, mapping |-> m] : f \in OrderFrames, m \in OrderMappings}
    /\ output = NotCalled

\* result = OrderAnalyzer.analyze_order_composition(df, mapping)
AnalyzeOrderComposition ==
    /\ ~output.called
    /\ output' = [called |-> TRUE,
                  ret |-> analyze_order_composition(input.df, input.mapping)]
    /\ UNCHANGED input

SpecOrder ==
    /\ OrderInit
    /\ [][AnalyzeOrderComposition /\ UNCHANGED <<mapperVars, analyzerVars, aiVars, guiVars>>]_vars

\* a mapped field names a column of the frame
Usable(field) == Selects(input.mapping[field], input.df)

\* C12: with order_id mapped (to a column of the frame that holds an order
\* id), analyze_order_composition returns its figures without raising,
\* whether or not price and item_name are mapped.
C12_OrderIdSuffices ==
    (/\ output.called
     /\ Usable("order_id")
     /\ HasOrder(input.df, input.mapping["order_id"].cols[1])
     /\ input.mapping["price"] # None => Usable("price")
     /\ input.mapping["item_name"] # None => Usable("item_name"))
    => output.ret = Figures

(***************************************************************************)
(* RestaurantDataAI._calculate_trend(data_series)                          *)
(*                                                                         *)
(* A number is kept as a fraction [num, den] with den > 0, so that a mean  *)
(* and a percentage are exact.                                             *)
(***************************************************************************)
MaxSeries == 4

Frac(num, den) == IF den < 0 THEN [num |-> 0 - num, den |-> 0 - den]
                  ELSE [num |-> num, den |-> den]
Whole(n) == [num |-> n, den |-> 1]
FracMinus(a, b) == Frac(a.num * b.den - b.num * a.den, a.den * b.den)
FracTimes(a, b) == Frac(a.num * b.num, a.den * b.den)
\* a / b, for b not zero
FracOver(a, b) == Frac(a.num * b.den, a.den * b.num)
FracLess(a, b) == a.num * b.den < b.num * a.den
FracEq(a, b) == a.num * b.den = b.num * a.den

\* data_series[i:j] and the sum of a series
RECURSIVE SeriesSum(_)
SeriesSum(series) ==
    IF Len(series) = 0 THEN 0 ELSE Head(series) + SeriesSum(Tail(series))
\* Series.mean(), of a series that is not empty
Mean(series) == Frac(SeriesSum(series), Len(series))

\* (mutant of _calculate_trend: a change of exactly 5 percent counts as a
\* trend)
_calculate_trend_inclusive(data_series) ==
    IF Len(data_series) < 2 THEN "insufficient_data"
    ELSE LET half == Len(data_series) \div 2
             first_half == Mean(SubSeq(data_series, 1, half))
             second_half == Mean(SubSeq(data_series, half + 1, Len(data_series)))
             change_percent ==
                 IF first_half.num # 0
                 THEN FracTimes(FracOver(FracMinus(second_half, first_half), first_half),
                                Whole(100))
                 ELSE Whole(0)
         IN  IF ~FracLess(change_percent, Whole(5)) THEN "increasing"
             ELSE IF ~FracLess(Whole(-5), change_percent) THEN "decreasing"
             ELSE "stable"

\* RestaurantDataAI._calculate_trend(data_series)
_calculate_trend(data_series) ==
    IF Len(data_series) < 2 THEN "insufficient_data"
    ELSE LET half == Len(data_series) \div 2
             first_half == Mean(SubSeq(data_series, 1, half))
             second_half == Mean(SubSeq(data_series, half + 1, Len(data_series)))
             change_percent ==
                 IF first_half.num # 0
                 THEN FracTimes(FracOver(FracMinus(second_half, first_half), first_half),
                                Whole(100))
                 ELSE Whole(0)
         IN  IF FracLess(Whole(5), change_percent) THEN "increasing"
             ELSE IF FracLess(change_percent, Whole(-5)) THEN "decreasing"
             ELSE "stable"

\* the series it is given: the non-missing values of a numeric column
TrendValues == {-100, 0, 50, 95, 100, 105, 150}
TrendSeries == SeqsUpTo(TrendValues, MaxSeries)

TrendInit ==
    /\ MapperIdle /\ AnalyzerInit /\ AiInit /\ GuiIdle
    /\ input \in TrendSeries /\ output = NotCalled

\* output = self._calculate_trend(input)
CalculateTrend ==
    /\ ~output.called
    /\ output' = [called |-> TRUE, ret |-> _calculate_trend(input)]
    /\ UNCHANGED input

SpecTrend ==
    /\ TrendInit
    /\ [][CalculateTrend /\ UNCHANGED <<mapperVars, analyzerVars, aiVars, guiVars>>]_vars

(***************************************************************************)
(* SalesAnalyzer.calculate_basic_metrics on the values of the price column *)
(*                                                                         *)
(* A cell is the text the file holds, or Missing.  An amount is a whole    *)
(* number of cents.                                                        *)
(***************************************************************************)
Digits == "0123456789"
IsDigit(c) == \E i \in 1..Len(Digits) : SubSeq(Digits, i, i) = c
DigitValue(c) == (CHOOSE i \in 1..Len(Digits) : SubSeq(Digits, i, i) = c) - 1

\* str.replace(r'[\$,]', '', regex=True): the text without its $ and ,
RECURSIVE StrReplaceCurrency(_)
StrReplaceCurrency(text) ==
    IF Len(text) = 0 THEN ""
    ELSE LET c == SubSeq(text, 1, 1)
             rest == StrReplaceCurrency(SubSeq(text, 2, Len(text)))
         IN  IF c \in {"$", ","} THEN rest ELSE c \o rest

\* the number a run of digits spells
RECURSIVE DigitsValue(_)
DigitsValue(text) ==
    IF Len(text) = 0 THEN 0
    ELSE 10 * DigitsValue(SubSeq(text, 1, Len(text) - 1))
         + DigitValue(SubSeq(text, Len(text), Len(text)))
AllDigits(text) == \A i \in 1..Len(text) : IsDigit(SubSeq(text, i, i))

\* a value that is not a number
NotANumber == [nan |-> TRUE, cents |-> 0]
Amount(cents) == [nan |-> FALSE, cents |-> cents]

\* pd.to_numeric(text, errors='coerce') on a text of the files: digits, with
\* at most two digits after a decimal point, is a number; any other text is
\* NaN.
to_numeric(text) ==
    LET dots == {i \in 1..Len(text) : SubSeq(text, i, i) = "."}
    IN  IF Len(text) = 0 THEN NotANumber
        ELSE IF dots = {}
        THEN IF AllDigits(text) THEN Amount(100 * DigitsValue(text)) ELSE NotANumber
        ELSE LET dot == CHOOSE i \in dots : TRUE
                 whole == SubSeq(text, 1, dot - 1)
                 decimals == SubSeq(text, dot + 1, Len(text))
             IN  IF /\ Cardinality(dots) = 1 /\ AllDigits(whole) /\ AllDigits(decimals)
                    /\ Len(whole) + Len(decimals) > 0 /\ Len(decimals) <= 2
                 THEN Amount(100 * DigitsValue(whole)
                             + (IF Len(decimals) = 1 THEN 10 ELSE 1) * DigitsValue(decimals))
                 ELSE NotANumber

\* one cell through clean_currency_column
CleanCurrencyCell(cell) ==
    IF cell = Missing THEN NotANumber ELSE to_numeric(StrReplaceCurrency(cell))

\* the cells of the price column of the files, and clean_currency_column
\* tabulated over them
PriceCells == {"$10.00", "$20.00", "$30.00", "1,000.5", "5", "bad", Missing}
CleanCurrencyTable == [cell \in PriceCells |-> CleanCurrencyCell(cell)]

\* (mutant of clean_currency_column: a value that does not parse becomes 0)
RECURSIVE clean_currency_column_fill0(_)
clean_currency_column_fill0(series) ==
    IF Len(series) = 0 THEN <<>>
    ELSE LET v == CleanCurrencyTable[Head(series)]
         IN  <<IF v.nan THEN Amount(0) ELSE v>> \o clean_currency_column_fill0(Tail(series))

\* DataCleaner.clean_currency_column(series).  A column that holds numbers
\* only was parsed by read_csv to the same values.
RECURSIVE clean_currency_column(_)
clean_currency_column(series) ==
    IF Len(series) = 0 THEN <<>>
    ELSE <<CleanCurrencyTable[Head(series)]>> \o clean_currency_column(Tail(series))

\* Series.sum() and Series.count(): NaN is skipped
RECURSIVE NanSum(_)
NanSum(series) ==
    IF Len(series) = 0 THEN 0
    ELSE (IF Head(series).nan THEN 0 ELSE Head(series).cents) + NanSum(Tail(series))
RECURSIVE NanCount(_)
NanCount(series) ==
    IF Len(series) = 0 THEN 0
    ELSE (IF Head(series).nan THEN 0 ELSE 1) + NanCount(Tail(series))

\* The figures of calculate_basic_metrics that are sums and counts, for a
\* mapped price column with the cells given: total_revenue,
\* transaction_count = len(df), average_transaction = Series.mean() (NaN
\* when no value is a number).
BasicMetrics(cells) ==
    LET price_series == clean_currency_column(cells)
    IN  [total_revenue |-> NanSum(price_series),
         transaction_count |-> Len(cells),
         average_transaction |->
             IF NanCount(price_series) = 0 THEN [nan |-> TRUE, num |-> 0, den |-> 1]
             ELSE [nan |-> FALSE, num |-> NanSum(price_series),
                   den |-> NanCount(price_series)]]

MetricsInit ==
    /\ MapperIdle /\ AnalyzerInit /\ AiInit /\ GuiIdle
    /\ input \in SeqsUpTo(PriceCells, MaxSeries) /\ output = NotCalled

\* output = SalesAnalyzer.calculate_basic_metrics(df, mapping), the price
\* column of df holding the cells of input
CalculateBasicMetrics ==
    /\ ~output.called
    /\ output' = [called |-> TRUE, ret |-> BasicMetrics(input)]
    /\ UNCHANGED input

SpecMetrics ==
    /\ MetricsInit
    /\ [][CalculateBasicMetrics /\ UNCHANGED <<mapperVars, analyzerVars, aiVars, guiVars>>]_vars

(***************************************************************************)
(* RestaurantDataAI.analyze_data_quality()                                 *)
(***************************************************************************)
MaxQualityRows == 6

\* the elements of a finite set, one after the other
RECURSIVE SetToSeq(_)
SetToSeq(S) ==
    IF S = {} THEN <<>>
    ELSE LET x == CHOOSE y \in S : TRUE IN <<x>> \o SetToSeq(S \ {x})

\* The sequences of at most n indices from 1..top that never fall: a frame
\* lists its rows in one order, equal rows included, since neither the
\* count of duplicates nor the count of missing cells depends on the order.
RECURSIVE RisingIndices(_, _)
RisingIndices(top, n) ==
    IF n = 0 THEN {<<>>}
    ELSE LET shorter == RisingIndices(top, n - 1)
         IN  shorter \cup
             {Append(s, i) : s \in {t \in shorter : Len(t) = n - 1 /\ n = 1},
                             i \in 1..top}
             \cup UNION {{Append(s, i) : i \in s[Len(s)]..top} :
                         s \in {t \in shorter : Len(t) = n - 1 /\ n > 1}}

QualityCells == {Missing, "5", "7"}
QualityColumnSeqs ==
    {<<StrLabel("guest_count")>>, <<StrLabel("guest_count"), StrLabel("notes")>>}
QualityFramesOf(columns) ==
    LET rowlist == SetToSeq([1..Len(columns) -> QualityCells])
    IN  {DataFrame(columns, [k \in 1..Len(idx) |-> rowlist[idx[k]]]) :
            idx \in RisingIndices(Len(rowlist), MaxQualityRows)}
QualityFrames == UNION {QualityFramesOf(columns) : columns \in QualityColumnSeqs}

\* self.data.isnull().sum().sum()
MissingCells(d) ==
    Cardinality({<<k, c>> \in (1..Len(d.rows)) \X (1..Len(d.columns)) :
                    d.rows[k][c] = Missing})
\* self.data.duplicated().sum(): the rows equal to an earlier row
DuplicatedRows(d) ==
    Cardinality({k \in 1..Len(d.rows) : \E j \in 1..(k - 1) : d.rows[j] = d.rows[k]})

FracMin(a, b) == IF FracLess(b, a) THEN b ELSE a

\* round(x, 1) in tenths: the nearest tenth, and the even one of two
\* tenths that are equally near
RoundTenths(x) ==
    LET scaled == 10 * x.num
        low == IF scaled >= 0 THEN scaled \div x.den
               ELSE 0 - (((0 - scaled) + x.den - 1) \div x.den)
        rest == scaled - low * x.den
    IN  IF 2 * rest > x.den THEN low + 1
        ELSE IF 2 * rest < x.den THEN low
        ELSE IF low % 2 = 0 THEN low ELSE low + 1

\* (mutant of quality_score: the two penalties have no cap)
quality_score_uncapped(d) ==
    LET total_rows == Len(d.rows)
        total_cols == Len(d.columns)
        duplicates == DuplicatedRows(d)
        missing == MissingCells(d)
        after_duplicates ==
            IF duplicates > 0
            THEN FracMinus(Whole(100), Frac(duplicates * 100, total_rows))
            ELSE Whole(100)
        after_missing ==
            IF missing > 0
            THEN FracMinus(after_duplicates, Frac(missing * 100, total_rows * total_cols))
            ELSE after_duplicates
        rounded == RoundTenths(after_missing)
    IN  IF rounded < 0 THEN 0 ELSE rounded

\* 'quality_score' of analyze_data_quality, in tenths
quality_score(d) ==
    LET total_rows == Len(d.rows)
        total_cols == Len(d.columns)
        duplicates == DuplicatedRows(d)
        missing == MissingCells(d)
        after_duplicates ==
            IF duplicates > 0
            THEN FracMinus(Whole(100),
                           FracMin(Whole(20), Frac(duplicates * 100, total_rows)))
            ELSE Whole(100)
        after_missing ==
            IF missing > 0
            THEN FracMinus(after_duplicates,
                           FracMin(Whole(30), Frac(missing * 100, total_rows * total_cols)))
            ELSE after_duplicates
        rounded == RoundTenths(after_missing)
    IN  IF rounded < 0 THEN 0 ELSE rounded

\* RestaurantDataAI.analyze_data_quality() with self.data = d
analyze_data_quality(d) ==
    [total_records |-> Len(d.rows),
     total_columns |-> Len(d.columns),
     duplicates |-> DuplicatedRows(d),
     missing_values |-> MissingCells(d),
     quality_score |-> quality_score(d)]

QualityInit ==
    /\ MapperIdle /\ AnalyzerInit /\ AiInit /\ GuiIdle
    /\ input \in QualityFrames /\ output = NotCalled

\* output = analyzer.analyze_data_quality(), analyzer.data being input
AnalyzeDataQuality ==
    /\ ~output.called
    /\ output' = [called |-> TRUE, ret |-> analyze_data_quality(input)]
    /\ UNCHANGED input

SpecQuality ==
    /\ QualityInit
    /\ [][AnalyzeDataQuality /\ UNCHANGED <<mapperVars, analyzerVars, aiVars, guiVars>>]_vars

(***************************************************************************)
(* RestaurantDataAI.analyze_summary_data(), analyze_business_opportunities *)
(* and calculate_revenue_impact()                                          *)
(*                                                                         *)
(* A column of a summary file is [label, numeric, values]: whether its     *)
(* dtype is a number, and its values that are not missing, in row order.   *)
(***************************************************************************)
Column(label, numeric, values) == [label |-> label, numeric |-> numeric, values |-> values]

RECURSIVE SumOfSquares(_)
SumOfSquares(series) ==
    IF Len(series) = 0 THEN 0
    ELSE Head(series) * Head(series) + SumOfSquares(Tail(series))

\* stats['std'] < stats['average'] * 0.1, std being the sample standard
\* deviation of more than one value and 0 of one value:
\*   std^2 = (n * sum(x^2) - sum(x)^2) / (n * (n - 1))  and  average = sum(x) / n
StdUnderTenthOfAverage(series) ==
    LET n == Len(series)
        total == SeriesSum(series)
    IN  /\ total > 0
        /\ n > 1 => 100 * n * (n * SumOfSquares(series) - total * total)
                        < (n - 1) * total * total

\* results[col] of analyze_summary_data
Stats(series) ==
    [total |-> SeriesSum(series),
     average |-> Mean(series),
     low_std |-> StdUnderTenthOfAverage(series),
     trend |-> _calculate_trend(series)]

\* the entries of results, in column order, from column i on
RECURSIVE SummaryEntries(_, _)
SummaryEntries(columns, i) ==
    IF i > Len(columns) THEN <<>>
    ELSE (IF columns[i].numeric /\ Len(columns[i].values) > 0
          THEN <<[col |-> columns[i].label, stats |-> Stats(columns[i].values)]>>
          ELSE <<>>)
         \o SummaryEntries(columns, i + 1)

\* RestaurantDataAI.analyze_summary_data(): the error dict when no column
\* is numeric, else the dict of the stats, keyed by column label
analyze_summary_data(columns) ==
    IF \A i \in 1..Len(columns) : ~columns[i].numeric
    THEN [error |-> TRUE, entries |-> <<>>]
    ELSE [error |-> FALSE, entries |-> SummaryEntries(columns, 1)]

\* 'error' in summary_data: the dict is the error dict, or a column with
\* the label "error" has stats
HasErrorKey(summary_data) ==
    \/ summary_data.error
    \/ \E i \in 1..Len(summary_data.entries) :
          summary_data.entries[i].col = StrLabel("error")

\* 'sales' in col_name.lower() or 'revenue' in col_name.lower()
IsRevenueName(label) ==
    Contains(Lower(label.text), "sales") \/ Contains(Lower(label.text), "revenue")
\* 'guest' in col_name.lower() or 'customer' in col_name.lower()
IsCustomerName(label) ==
    Contains(Lower(label.text), "guest") \/ Contains(Lower(label.text), "customer")

Opportunity(type, priority, col, impact) ==
    [type |-> type, priority |-> priority, col |-> col, impact |-> impact]

\* the first loop of analyze_business_opportunities, from entry i on
RECURSIVE RevenueOpportunities(_, _)
RevenueOpportunities(entries, i) ==
    IF i > Len(entries) THEN <<>>
    ELSE LET e == entries[i]
         IN  (IF ~IsRevenueName(e.col) THEN <<>>
              ELSE IF e.stats.trend = "decreasing"
              THEN <<Opportunity("revenue_recovery", "HIGH", e.col, Whole(e.stats.total))>>
              ELSE IF e.stats.trend = "stable" /\ e.stats.low_std
              THEN <<Opportunity("growth_potential", "MEDIUM", e.col,
                                 Frac(e.stats.total * 15, 100))>>
              ELSE <<>>)
             \o RevenueOpportunities(entries, i + 1)

\* the second loop of analyze_business_opportunities, from entry i on
RECURSIVE CustomerOpportunities(_, _)
CustomerOpportunities(entries, i) ==
    IF i > Len(entries) THEN <<>>
    ELSE LET e == entries[i]
             avg_daily == e.stats.average
         IN  (IF IsCustomerName(e.col) /\ FracLess(avg_daily, Whole(200))
              THEN <<Opportunity("customer_acquisition", "HIGH", e.col,
                                 FracTimes(FracMinus(Whole(250), avg_daily), Whole(7 * 4)))>>
              ELSE <<>>)
             \o CustomerOpportunities(entries, i + 1)

\* col_name.lower() raises AttributeError on a label that is no str
LowerRaises(entries) == \E i \in 1..Len(entries) : ~entries[i].col.isstr

\* RestaurantDataAI.analyze_business_opportunities(): the list, or the
\* error dict its except clause returns
analyze_business_opportunities(columns) ==
    LET summary_data == analyze_summary_data(columns)
    IN  IF HasErrorKey(summary_data)
        THEN [error |-> FALSE, opportunities |-> <<>>]
        ELSE IF LowerRaises(summary_data.entries)
        THEN [error |-> TRUE, opportunities |-> <<>>]
        ELSE [error |-> FALSE,
              opportunities |-> RevenueOpportunities(summary_data.entries, 1)
                                \o CustomerOpportunities(summary_data.entries, 1)]

\* total_revenue after the loop of calculate_revenue_impact over the entries
\* from i on: the total of the last column with a revenue name
RECURSIVE TotalRevenue(_, _, _)
TotalRevenue(entries, i, total_revenue) ==
    IF i > Len(entries) THEN total_revenue
    ELSE TotalRevenue(entries, i + 1,
                      IF IsRevenueName(entries[i].col) THEN entries[i].stats.total
                      ELSE total_revenue)

\* one scenario of impact_analysis: total_revenue * percent / 100 a month,
\* and twelve times that a year
Scenario(total_revenue, percent) ==
    [monthly_impact |-> Frac(total_revenue * percent, 100),
     annual_impact |-> Frac(total_revenue * percent * 12, 100)]

\* RestaurantDataAI.calculate_revenue_impact(): "impacts" with the four
\* scenarios, "empty" for {}, "error" for the dict of the except clause
calculate_revenue_impact(columns) ==
    LET summary_data == analyze_summary_data(columns)
        Result(kind, total) ==
            [kind |-> kind,
             customer_acquisition |-> Scenario(total, 25),
             average_ticket |-> Scenario(total, 15),
             operational_efficiency |-> Scenario(total, 10),
             combined_impact |-> Scenario(total, 50)]
    IN  IF HasErrorKey(summary_data) THEN Result("empty", 0)
        ELSE IF LowerRaises(summary_data.entries) THEN Result("error", 0)
        ELSE LET total_revenue == TotalRevenue(summary_data.entries, 1, 0)
             IN  IF total_revenue > 0 THEN Result("impacts", total_revenue)
                 ELSE Result("empty", 0)

\* sum(stats['total'] for ... if 'sales' in ... or 'revenue' in ...) over
\* the entries from i on
RECURSIVE SumOfRevenueTotals(_, _)
SumOfRevenueTotals(entries, i) ==
    IF i > Len(entries) THEN 0
    ELSE (IF IsRevenueName(entries[i].col) THEN entries[i].stats.total ELSE 0)
         + SumOfRevenueTotals(entries, i + 1)

\* RestaurantDataAI.generate_strategic_recommendations(), its
\* revenue_optimization list: "recommended" with the total revenue and the
\* 15% target of the first line, "none" for the empty list, "error" for
\* the dict of the except clause (the loops over summary_data call
\* col_name.lower())
generate_strategic_recommendations(columns) ==
    LET summary_data == analyze_summary_data(columns)
        Result(kind, total) ==
            [kind |-> kind, total_revenue |-> total, target |-> Frac(total * 15, 100)]
    IN  IF HasErrorKey(summary_data) THEN Result("none", 0)
        ELSE IF LowerRaises(summary_data.entries) THEN Result("error", 0)
        ELSE LET total_revenue == SumOfRevenueTotals(summary_data.entries, 1)
             IN  IF total_revenue > 0 THEN Result("recommended", total_revenue)
                 ELSE Result("none", 0)

\* the files: at most MaxDataCols columns with labels of SummaryLabels, a
\* column of text or a numeric column with one of these series of values
SummarySeries ==
    {<<>>, <<120, 120>>, <<200, 200>>, <<150, 150, 50, 50>>,
     <<100, 100, 100, 100>>, <<80, 120, 120, 80>>}
ColumnContents ==
    {[numeric |-> FALSE, values |-> <<>>]}
    \cup {[numeric |-> TRUE, values |-> v] : v \in SummarySeries}
SummaryFilesOf(labels) ==
    {[i \in 1..Len(labels) |-> Column(labels[i], contents[i].numeric, contents[i].values)] :
        contents \in [1..Len(labels) -> ColumnContents]}
SummaryFiles ==
    UNION {SummaryFilesOf(labels) : labels \in ColumnSeqs(SummaryLabels, MaxDataCols) \ {<<>>}}

SummaryInit ==
    /\ MapperIdle /\ AnalyzerInit /\ AiInit /\ GuiIdle
    /\ input \in SummaryFiles /\ output = NotCalled

\* output = analyzer.analyze_business_opportunities()
AnalyzeBusinessOpportunities ==
    /\ ~output.called
    /\ output' = [called |-> TRUE, op |-> "analyze_business_opportunities",
                  ret |-> analyze_business_opportunities(input)]
    /\ UNCHANGED input

\* output = analyzer.calculate_revenue_impact()
CalculateRevenueImpact ==
    /\ ~output.called
    /\ output' = [called |-> TRUE, op |-> "calculate_revenue_impact",
                  ret |-> calculate_revenue_impact(input)]
    /\ UNCHANGED input

\* output = analyzer.generate_strategic_recommendations()
GenerateStrategicRecommendations ==
    /\ ~output.called
    /\ output' = [called |-> TRUE, op |-> "generate_strategic_recommendations",
                  ret |-> generate_strategic_recommendations(input)]
    /\ UNCHANGED input

SummaryNext ==
    \/ AnalyzeBusinessOpportunities /\ UNCHANGED <<mapperVars, analyzerVars, aiVars, guiVars>>
    \/ GenerateStrategicRecommendations /\ UNCHANGED <<mapperVars, analyzerVars, aiVars, guiVars>>
    \/ CalculateRevenueImpact /\ UNCHANGED <<mapperVars, analyzerVars, aiVars, guiVars>>
SpecSummary ==
    /\ SummaryInit
    /\ [][SummaryNext]_vars

(***************************************************************************)
(* DataCleaner.clean_text_column() and                                     *)
(* SalesAnalyzer.analyze_item_performance() on the cells of the frame      *)
(***************************************************************************)
MaxItemRows == 3
MoreThanTen == 11
TopN == 10

LowerChars == {SubSeq(LowerAlphabet, i, i) : i \in 1..Len(LowerAlphabet)}
UpperOf ==
    [c \in LowerChars |->
        LET i == CHOOSE i \in 1..Len(LowerAlphabet) : SubSeq(LowerAlphabet, i, i) = c
        IN  SubSeq(UpperAlphabet, i, i)]
UpperChar(c) == IF c \in LowerChars THEN UpperOf[c] ELSE c
IsCased(c) == c \in UpperChars \cup LowerChars

\* str.title(): a cased character that follows a cased one is lowercased,
\* any other cased character is uppercased
RECURSIVE TitleFrom(_, _)
TitleFrom(s, previous_is_cased) ==
    IF Len(s) = 0 THEN s
    ELSE LET c == SubSeq(s, 1, 1)
         IN  (IF previous_is_cased THEN LowerChar(c) ELSE UpperChar(c))
             \o TitleFrom(SubSeq(s, 2, Len(s)), IsCased(c))
Title(s) == TitleFrom(s, FALSE)

\* the order of str: code point by code point, a prefix first
CodePoints == " " \o UpperAlphabet \o LowerAlphabet
CodePoint(c) == CHOOSE i \in 1..Len(CodePoints) : SubSeq(CodePoints, i, i) = c
RECURSIVE StrLess(_, _)
StrLess(a, b) ==
    IF Len(b) = 0 THEN FALSE
    ELSE IF Len(a) = 0 THEN TRUE
    ELSE LET x == CodePoint(SubSeq(a, 1, 1))
             y == CodePoint(SubSeq(b, 1, 1))
         IN  IF x = y THEN StrLess(SubSeq(a, 2, Len(a)), SubSeq(b, 2, Len(b)))
             ELSE x < y

\* the cells of the item column and of the price column of the frames
ItemCells == {"pizza", "Pizza ", " PIZZA", "veggie wrap", "VEGGIE WRAP", "Burger", Missing}
ItemPriceCells == {"$10.00", "$20.00", "bad"}
ItemName(i) == "item " \o SubSeq(LowerAlphabet, i, i)
ItemTexts == (ItemCells \ {Missing}) \cup {ItemName(i) : i \in 1..MoreThanTen}
StripTitleTable == [t \in ItemTexts |-> Title(Strip(t))]
TitleTable == [t \in ItemTexts |-> Title(t)]

\* (mutant of clean_text_column: the name is title-cased but not trimmed)
RECURSIVE clean_text_column_untrimmed(_)
clean_text_column_untrimmed(series) ==
    IF Len(series) = 0 THEN <<>>
    ELSE <<IF Head(series) = Missing THEN Missing ELSE TitleTable[Head(series)]>>
         \o clean_text_column_untrimmed(Tail(series))

\* DataCleaner.clean_text_column(series): series.str.strip().str.title();
\* a missing value stays missing
RECURSIVE clean_text_column(_)
clean_text_column(series) ==
    IF Len(series) = 0 THEN <<>>
    ELSE <<IF Head(series) = Missing THEN Missing ELSE StripTitleTable[Head(series)]>>
         \o clean_text_column(Tail(series))

\* one column of the rows of a frame
ItemColumn(rows) == [r \in 1..Len(rows) |-> rows[r].item]
PriceColumn(rows) == [r \in 1..Len(rows) |-> rows[r].price]

\* the keys of a value_counts() or of a groupby: the values that are not
\* missing, in the order of str
RECURSIVE SortedKeys(_)
SortedKeys(S) ==
    IF S = {} THEN <<>>
    ELSE LET least == CHOOSE k \in S : \A other \in S \ {k} : StrLess(k, other)
         IN  <<least>> \o SortedKeys(S \ {least})
GroupKeys(clean_item) == SortedKeys({clean_item[r] : r \in 1..Len(clean_item)} \ {Missing})

\* .round(2) of a mean of amounts: the nearest cent.  No mean of at most
\* fifteen whole-dollar prices lies halfway between two cents.
RoundedMean(cents, count) ==
    IF count = 0 THEN NotANumber ELSE Amount((2 * cents + count) \div (2 * count))

\* groupby('clean_item')['clean_price'].agg(['sum', 'mean', 'count']).round(2):
\* one row per key, NaN prices skipped
ItemRevenue(clean_item, clean_price) ==
    LET keys == GroupKeys(clean_item)
        Of(k) == SelectAt(clean_price, {r \in 1..Len(clean_item) : clean_item[r] = keys[k]}, 1)
    IN  [k \in 1..Len(keys) |->
            [item |-> keys[k],
             sum |-> Amount(NanSum(Of(k))),
             mean |-> RoundedMean(NanSum(Of(k)), NanCount(Of(k))),
             count |-> NanCount(Of(k))]]

\* value_counts(): the rows of each key, the most frequent key first and
\* keys of one frequency in the order of their first rows
ItemCounts(clean_item) ==
    LET keys == GroupKeys(clean_item)
        RowsOf(k) == {r \in 1..Len(clean_item) : clean_item[r] = keys[k]}
        Count(k) == Cardinality(RowsOf(k))
        First(k) == CHOOSE r \in RowsOf(k) : \A other \in RowsOf(k) : r <= other
        Before(k) == Cardinality({j \in 1..Len(keys) :
                         Count(j) > Count(k) \/ (Count(j) = Count(k) /\ First(j) < First(k))})
    IN  [p \in 1..Len(keys) |->
            LET k == CHOOSE k \in 1..Len(keys) : Before(k) = p - 1
            IN  [item |-> keys[k], count |-> Count(k)]]

\* .head(n)
FirstN(s, n) == SubSeq(s, 1, IF Len(s) < n THEN Len(s) ELSE n)

\* DataFrame.nlargest(n, by): the rows with a number in column by, the
\* largest first and equal ones in the order of the frame; the releases of
\* pandas differ on whether the rows with NaN follow them
Larger(a, b) == ~a.nan /\ ~b.nan /\ a.cents > b.cents
Same(a, b) == ~a.nan /\ ~b.nan /\ a.cents = b.cents
nlargest(frame, n, by, nan_rows_follow) ==
    LET numbers == {k \in 1..Len(frame) : ~frame[k][by].nan}
        nans == (1..Len(frame)) \ numbers
        Before(k) == Cardinality({j \in numbers :
                         \/ Larger(frame[j][by], frame[k][by])
                         \/ Same(frame[j][by], frame[k][by]) /\ j < k})
        ranked == [p \in 1..Cardinality(numbers) |->
                      frame[CHOOSE k \in numbers : Before(k) = p - 1]]
    IN  FirstN(ranked \o (IF nan_rows_follow THEN SelectAt(frame, nans, 1) ELSE <<>>), n)

\* SalesAnalyzer.analyze_item_performance(df, mapping) with the item column
\* mapped, on the rows given.  A column that holds no text at all in a frame
\* with rows is a float64 column, and .str raises on it.
item_performance(rows, has_price, nan_rows_follow) ==
    IF Len(rows) > 0 /\ \A r \in 1..Len(rows) : rows[r].item = Missing
    THEN [raised |-> TRUE]
    ELSE LET clean_item == clean_text_column(ItemColumn(rows))
             item_counts == ItemCounts(clean_item)
             clean_price == clean_currency_column(PriceColumn(rows))
             item_revenue == ItemRevenue(clean_item, clean_price)
         IN  [raised |-> FALSE,
              total_unique_items |-> Len(item_counts),
              most_ordered_items |-> FirstN(item_counts, TopN),
              ordered_once |-> Cardinality({k \in 1..Len(item_counts) :
                                               item_counts[k].count = 1}),
              ordered_2_5_times |-> Cardinality({k \in 1..Len(item_counts) :
                                               /\ item_counts[k].count >= 2
                                               /\ item_counts[k].count <= 5}),
              ordered_more_than_5 |-> Cardinality({k \in 1..Len(item_counts) :
                                               item_counts[k].count > 5}),
              has_revenue |-> has_price,
              top_revenue_items |->
                  IF has_price THEN nlargest(item_revenue, TopN, "sum", nan_rows_follow)
                  ELSE <<>>,
              highest_avg_price_items |->
                  IF has_price THEN nlargest(item_revenue, TopN, "mean", nan_rows_follow)
                  ELSE <<>>]

\* The frames: at most MaxItemRows rows of any cells, listed in one order
\* since no figure of the result depends on the order of the rows, and the
\* frames of MoreThanTen items of which the first ones cost more.
ItemRowKinds == SetToSeq([item : ItemCells, price : ItemPriceCells])
ShortFrames ==
    {[r \in 1..Len(ix) |-> ItemRowKinds[ix[r]]] :
        ix \in RisingIndices(Len(ItemRowKinds), MaxItemRows)}
LongFrames ==
    {[r \in 1..MoreThanTen |->
        [item |-> ItemName(r), price |-> IF r <= dear THEN "$20.00" ELSE "$10.00"]] :
     dear \in 0..MoreThanTen}
ItemFrames == ShortFrames \cup LongFrames

ItemsInit ==
    /\ MapperIdle /\ AnalyzerInit /\ AiInit /\ GuiIdle
    /\ input \in [rows : ItemFrames, has_price : BOOLEAN]
    /\ output = NotCalled

\* output = SalesAnalyzer.analyze_item_performance(df, mapping), df holding
\* the rows of input and mapping naming its item column and, with
\* has_price, its price column
AnalyzeItemPerformance ==
    /\ ~output.called
    /\ \E nan_rows_follow \in BOOLEAN :
          output' = [called |-> TRUE,
                     ret |-> item_performance(input.rows, input.has_price, nan_rows_follow)]
    /\ UNCHANGED input

SpecItems ==
    /\ ItemsInit
    /\ [][AnalyzeItemPerformance /\ UNCHANGED <<mapperVars, analyzerVars, aiVars, guiVars>>]_vars

(***************************************************************************)
(* RestaurantDataAnalyzer.save_report()                                    *)
(***************************************************************************)
\* json.dump(report, f, indent=2, default=str) raises TypeError: default is
\* applied to values only, and the daily_totals of a temporal analysis that
\* produced figures are keyed by datetime.date objects
json_dump_raises(r) == r.temporal_analysis = Figures

\* what save_report did: whether it raised, and the report it wrote to the
\* file, if it wrote one
Saved(raised, written, r) ==
    [called |-> TRUE, raised |-> raised, written |-> written, report |-> r]

\* RestaurantDataAnalyzer.save_report(output_path)
SaveReport ==
    /\ output' = IF report.isNone THEN Saved(FALSE, FALSE, NoReport)
                 ELSE IF json_dump_raises(report) THEN Saved(TRUE, FALSE, NoReport)
                 ELSE Saved(FALSE, TRUE, report)
    /\ UNCHANGED <<analyzerVars, input>>

\* a RestaurantDataAnalyzer and the calls made on it up to a save_report
ReportNext ==
    \/ /\ ~output.called
       /\ Next
    \/ /\ ~output.called
       /\ SaveReport
       /\ UNCHANGED <<mapperVars, aiVars, guiVars>>
SpecReport == Init /\ [][ReportNext]_vars

(***************************************************************************)
(* RestaurantDataAI.export_analysis()                                      *)
(***************************************************************************)
\* generate_advanced_insights() raises: for the label summary it formats
\* every metric of analyze_summary_data with col_name.replace(...), which is
\* an AttributeError on a column label that is no str.  (Such a dataset is
\* held after a load_data that returned False.)  The other analyses catch
\* their exceptions.
advanced_insights_raise(d, dt) ==
    /\ d.loaded
    /\ dt = "summary"
    /\ Len(d.rows) > 0
    /\ \E c \in 1..Len(d.columns) : ~d.columns[c].isstr

\* what export_analysis did: whether it raised, and the data_type entry of
\* the results it wrote to the file
Exported(raised, dt) == [called |-> TRUE, raised |-> raised, data_type |-> dt]

\* RestaurantDataAI.export_analysis(output_file)
ExportAnalysis ==
    /\ output' = IF advanced_insights_raise(ai_data, data_type)
                 THEN Exported(TRUE, "")
                 ELSE Exported(FALSE, data_type)
    /\ UNCHANGED <<aiVars, input>>

\* a RestaurantDataAI and the calls made on it up to an export_analysis
ExportNext ==
    \/ /\ ~output.called
       /\ \E file \in AiFiles : AiLoadData(file)
       /\ UNCHANGED <<mapperVars, analyzerVars, pureVars, guiVars>>
    \/ /\ ~output.called
       /\ ExportAnalysis
       /\ UNCHANGED <<mapperVars, analyzerVars, guiVars>>
SpecExport == Init /\ [][ExportNext]_vars

(***************************************************************************)
(* RestaurantDataAnalyzer.clean_data() on frames with several rows         *)
(***************************************************************************)
MaxCleanRows == 2

\* self.data after clean_data(remove_duplicates, handle_missing) on d
cleaned_data(d, dedup, strategy) ==
    handle_missing_values(IF dedup THEN remove_duplicates(d) ELSE d, strategy)

CleanFrames == FramesOver(AnalyzerColumnSeqs, MaxCleanRows)

CleanInit ==
    /\ MapperIdle /\ AnalyzerInit /\ AiInit /\ GuiIdle
    /\ input \in [frame : CleanFrames, remove_duplicates : BOOLEAN,
                  handle_missing : Strategies]
    /\ output = NotCalled

\* output = analyzer.clean_data(remove_duplicates, handle_missing), the
\* analyzer holding the frame of input
CleanDataOnce ==
    /\ ~output.called
    /\ output' = [called |-> TRUE,
                  ret |-> cleaned_data(input.frame, input.remove_duplicates,
                                       input.handle_missing)]
    /\ UNCHANGED input

SpecClean ==
    /\ CleanInit
    /\ [][CleanDataOnce /\ UNCHANGED <<mapperVars, analyzerVars, aiVars, guiVars>>]_vars

(***************************************************************************)
(* RestaurantDataAI.analyze_sales_trends(): the figures                    *)
(***************************************************************************)
MaxSalesRows == 3

\* the cells of the date column once parsed, by day name and hour (NaT for
\* a cell that does not parse), and the cells of the numeric price column
NaT == [nat |-> TRUE, day |-> "", hour |-> 0]
At(day, hour) == [nat |-> FALSE, day |-> day, hour |-> hour]
DateCells == {NaT, At("Monday", 9), At("Monday", 12), At("Friday", 9), At("Friday", 12)}
SalesPrices == {NotANumber, Amount(1000), Amount(2000)}
SalesRowKinds == SetToSeq([date : DateCells, price : SalesPrices])
SalesFrames ==
    {[r \in 1..Len(ix) |-> SalesRowKinds[ix[r]]] :
        ix \in RisingIndices(Len(SalesRowKinds), MaxSalesRows)}

\* the keys of a grouping by hour, ascending
RECURSIVE SortedHours(_)
SortedHours(S) ==
    IF S = {} THEN <<>>
    ELSE LET least == CHOOSE h \in S : \A other \in S : h <= other
         IN  <<least>> \o SortedHours(S \ {least})

\* df.groupby(key)[price_col].sum() for one key: NaN prices are skipped
GroupSum(rows, members) == NanSum([k \in 1..Len(members) |-> rows[members[k]].price])
HourlySales(rows) ==
    LET keys == SortedHours({rows[r].date.hour : r \in 1..Len(rows)})
    IN  [k \in 1..Len(keys) |->
            [key |-> keys[k],
             sum |-> GroupSum(rows, SetToSeq({r \in 1..Len(rows) : rows[r].date.hour = keys[k]}))]]
WeeklySales(rows) ==
    LET keys == SortedKeys({rows[r].date.day : r \in 1..Len(rows)})
    IN  [k \in 1..Len(keys) |->
            [key |-> keys[k],
             sum |-> GroupSum(rows, SetToSeq({r \in 1..Len(rows) : rows[r].date.day = keys[k]}))]]

\* (mutant of idxmax: the last of the largest values)
idxmax_last(series) ==
    LET k == CHOOSE k \in 1..Len(series) :
                 /\ \A j \in 1..Len(series) : series[j].sum <= series[k].sum
                 /\ \A j \in (k + 1)..Len(series) : series[j].sum < series[k].sum
    IN  series[k].key

\* Series.idxmax(): the key of the first of the largest values
idxmax(series) ==
    LET k == CHOOSE k \in 1..Len(series) :
                 /\ \A j \in 1..Len(series) : series[j].sum <= series[k].sum
                 /\ \A j \in 1..(k - 1) : series[j].sum < series[k].sum
    IN  series[k].key

\* the try block of analyze_sales_trends on the rows given, the date and
\* the price column mapped: rows without a date are dropped, and with no
\* row left idxmax raises, which the except clause turns into an error
sales_trends(rows) ==
    LET dated == SelectAt(rows, {r \in 1..Len(rows) : ~rows[r].date.nat}, 1)
        hourly_sales == HourlySales(dated)
        weekly_sales == WeeklySales(dated)
        peak_hour == idxmax(hourly_sales)
        best_day == idxmax(weekly_sales)
        SumAt(series, key) == series[CHOOSE k \in 1..Len(series) : series[k].key = key].sum
    IN  IF Len(dated) = 0 THEN [error |-> TRUE]
        ELSE [error |-> FALSE,
              peak_hour |-> peak_hour,
              peak_hour_sales |-> SumAt(hourly_sales, peak_hour),
              best_day |-> best_day,
              best_day_average |-> SumAt(weekly_sales, best_day),
              total_revenue |-> NanSum([r \in 1..Len(dated) |-> dated[r].price])]

SalesInit ==
    /\ MapperIdle /\ AnalyzerInit /\ AiInit /\ GuiIdle
    /\ input \in SalesFrames
    /\ output = NotCalled

\* output = analyzer.analyze_sales_trends(), analyzer.data holding the rows
\* of input
AnalyzeSalesTrendsFigures ==
    /\ ~output.called
    /\ output' = [called |-> TRUE, ret |-> sales_trends(input)]
    /\ UNCHANGED input

SpecSales ==
    /\ SalesInit
    /\ [][AnalyzeSalesTrendsFigures
          /\ UNCHANGED <<mapperVars, analyzerVars, aiVars, guiVars>>]_vars

(***************************************************************************)
(* Report generation and the analysis operations called on their own       *)
(***************************************************************************)
\* C11: report generation does not raise: an exception inside one analysis
\* operation becomes the error result of that section, and the report is
\* still produced.
C11_ReportGenerationNeverRaises ==
    (result.op = "generate_analysis" /\ data.loaded /\ ~mapping.isNone)
    => (~result.raised /\ result.ret = Tag("report"))

(***************************************************************************)
(* Properties of load_data (SpecLoad)                                      *)
(***************************************************************************)
\* what load_data promises for one analyzer: r is the outcome of its last
\* operation and d the dataset it holds
LoadContract(r, d) ==
    r.op = "load_data" =>
        /\ ~r.raised
        /\ r.ret \in {Tag("True"), Tag("False")}
        /\ r.args.file_path \in {"unreadable", "unsupported"} => r.ret = Tag("False")
        /\ r.ret = Tag("True") => d.loaded

\* C13: load_data of either analyzer never raises, returns False for a file
\* that cannot be read or has an unsupported extension, and returns True
\* only when the analyzer holds a dataset.
C13_LoadDataReturnsBoolean ==
    LoadContract(result, data) /\ LoadContract(ai_result, ai_data)

\* a load that failed after one that succeeded: False is returned and the
\* dataset of the earlier load is still held
C13_Witness ==
    /\ result.op = "load_data"
    /\ result.args.file_path = "unreadable"
    /\ result.ret = Tag("False")
    /\ ~result.raised
    /\ data.loaded

(***************************************************************************)
(* Properties of _calculate_trend (SpecTrend)                              *)
(***************************************************************************)
\* twenty times the sum of the first floor(n/2) values, weighted by the size
\* of the other half, and the same for the remaining values: with m1 and m2
\* the two means and c = 20 * |first| * |rest|,  M1 = c * m1 / 20  and
\* M2 = c * m2 / 20
FirstPart == SubSeq(input, 1, Len(input) \div 2)
RestPart == SubSeq(input, Len(input) \div 2 + 1, Len(input))
M1 == SeriesSum(FirstPart) * Len(RestPart)
M2 == SeriesSum(RestPart) * Len(FirstPart)
\* (m2 - m1) / m1 * 100 > 5, < -5: the sign of m1 turns the comparison
ChangeAbove5 == M1 # 0 /\ (IF M1 > 0 THEN 20 * (M2 - M1) > M1 ELSE 20 * (M2 - M1) < M1)
ChangeBelowMinus5 ==
    M1 # 0 /\ (IF M1 > 0 THEN 20 * (M2 - M1) < 0 - M1 ELSE 20 * (M2 - M1) > 0 - M1)

CentsOf ==
    [cell \in {"$10.00", "$20.00", "$30.00", "1,000.5", "5"} |->
        CASE cell = "$10.00" -> 1000
          [] cell = "$20.00" -> 2000
          [] cell = "$30.00" -> 3000
          [] cell = "1,000.5" -> 100050
          [] cell = "5" -> 500]
ParsedAt == {i \in 1..Len(input) : input[i] \in DOMAIN CentsOf}
RECURSIVE TotalOver(_)
TotalOver(indices) ==
    IF indices = {} THEN 0
    ELSE LET i == CHOOSE j \in indices : TRUE
         IN  CentsOf[input[i]] + TotalOver(indices \ {i})

QRows == Len(input.rows)
QCells == Len(input.rows) * Len(input.columns)
QDuplicates == QRows - Cardinality({input.rows[k] : k \in 1..QRows})
QMissing ==
    Cardinality({<<k, c>> \in (1..QRows) \X (1..Len(input.columns)) : input.rows[k][c] = "NaN"})
\* 100 - min(20, 100 * duplicates / rows) - min(30, 100 * missing / cells),
\* times the number of cells
QMin(a, b) == IF a < b THEN a ELSE b
QScoreTimesCells ==
    100 * QCells - QMin(20 * QCells, 100 * QDuplicates * Len(input.columns))
                 - QMin(30 * QCells, 100 * QMissing)
QAbs(x) == IF x < 0 THEN 0 - x ELSE x

\* C16: the quality score is 100 less the duplicate penalty (at most 20)
\* and the missing-value penalty (at most 30), to the nearest tenth and not
\* below 0; it is exactly 100 with no duplicate row and no missing value.
C16_QualityScore ==
    output.called =>
        /\ output.ret.quality_score >= 0
        /\ QRows = 0 => output.ret.quality_score = 1000
        /\ QRows > 0 =>
              2 * QAbs(10 * QScoreTimesCells - output.ret.quality_score * QCells) <= QCells
        /\ (QDuplicates = 0 /\ QMissing = 0) => output.ret.quality_score = 1000

\* six rows of two cells with one duplicate and one missing value: the
\* penalties are a sixth and a twelfth of 100, both under their caps, and
\* the score is 75.0
C16_Witness ==
    /\ output.called
    /\ QRows = 6 /\ QCells = 12
    /\ QDuplicates = 1
    /\ QMissing = 1
    /\ output.ret.quality_score = 750

(***************************************************************************)
(* Properties of analyze_business_opportunities and                        *)
(* calculate_revenue_impact (SpecSummary)                                  *)
(***************************************************************************)
\* the numeric columns of the file that hold a value and whose lowercased
\* name contains one of the words
MetricColumns(words) ==
    {i \in 1..Len(input) :
        /\ input[i].numeric
        /\ Len(input[i].values) > 0
        /\ input[i].label.isstr
        /\ \E w \in words : Contains(Lower(input[i].label.text), w)}

\* the opportunities of one type emitted for column i
Emitted(type, i) ==
    {k \in 1..Len(output.ret.opportunities) :
        /\ output.ret.opportunities[k].type = type
        /\ output.ret.opportunities[k].col = input[i].label}
OnlyEmitted(type, i) == output.ret.opportunities[CHOOSE k \in Emitted(type, i) : TRUE]

Opportunities == output.called /\ output.op = "analyze_business_opportunities"

\* C17: a numeric column with guest or customer in its name gets exactly
\* one HIGH customer_acquisition opportunity of impact (250 - average) * 28
\* when its average is under 200, and none otherwise; a file whose only
\* metric is guest_count averaging 120 gets exactly that one, sized 3640.
C17_CustomerAcquisition ==
    Opportunities =>
        /\ ~output.ret.error
        /\ \A i \in MetricColumns({"guest", "customer"}) :
              LET total == SeriesSum(input[i].values)
                  n == Len(input[i].values)
              IN  IF total < 200 * n
                  THEN /\ Cardinality(Emitted("customer_acquisition", i)) = 1
                       /\ OnlyEmitted("customer_acquisition", i).priority = "HIGH"
                       /\ LET impact == OnlyEmitted("customer_acquisition", i).impact
                          IN  impact.num * n = 28 * (250 * n - total) * impact.den
                  ELSE Emitted("customer_acquisition", i) = {}
        /\ input = <<[label |-> [isstr |-> TRUE, text |-> "guest_count"],
                      numeric |-> TRUE, values |-> <<120, 120>>]>>
              => /\ Len(output.ret.opportunities) = 1
                 /\ output.ret.opportunities[1].type = "customer_acquisition"
                 /\ output.ret.opportunities[1].impact.num
                        = 3640 * output.ret.opportunities[1].impact.den

\* C18: a numeric column with sales or revenue in its name gets exactly one
\* HIGH revenue_recovery opportunity sized at its total when its trend is
\* decreasing, exactly one MEDIUM growth_potential opportunity sized at 15%
\* of its total when its trend is stable and its standard deviation is under
\* a tenth of its mean, and no revenue opportunity otherwise.
C18_RevenueOpportunities ==
    Opportunities =>
        \A i \in MetricColumns({"sales", "revenue"}) :
            LET total == SeriesSum(input[i].values)
                trend == _calculate_trend(input[i].values)
                recovery == Emitted("revenue_recovery", i)
                growth == Emitted("growth_potential", i)
            IN  CASE trend = "decreasing" ->
                        /\ Cardinality(recovery) = 1 /\ growth = {}
                        /\ OnlyEmitted("revenue_recovery", i).priority = "HIGH"
                        /\ FracEq(OnlyEmitted("revenue_recovery", i).impact, Whole(total))
                  [] trend = "stable" /\ StdUnderTenthOfAverage(input[i].values) ->
                        /\ Cardinality(growth) = 1 /\ recovery = {}
                        /\ OnlyEmitted("growth_potential", i).priority = "MEDIUM"
                        /\ FracEq(OnlyEmitted("growth_potential", i).impact,
                                  Frac(15 * total, 100))
                  [] OTHER -> recovery = {} /\ growth = {}

\* the total of the file's revenue column
RevenueColumns == MetricColumns({"sales", "revenue"})
RevenueTotal ==
    SeriesSum(input[CHOOSE i \in RevenueColumns : \A j \in RevenueColumns : j <= i].values)

\* C19: with a positive total revenue the monthly impacts are 25%, 15% and
\* 10% of it, the combined monthly impact is their sum, and every annual
\* impact is 12 times the monthly one.
C19_RevenueImpact ==
    (/\ output.called /\ output.op = "calculate_revenue_impact"
     /\ RevenueColumns # {} /\ RevenueTotal > 0)
    => LET r == output.ret
           Monthly(scenario, percent) ==
               FracEq(scenario.monthly_impact, Frac(percent * RevenueTotal, 100))
           Annual(scenario) ==
               FracEq(scenario.annual_impact, FracTimes(Whole(12), scenario.monthly_impact))
       IN  /\ r.kind = "impacts"
           /\ Monthly(r.customer_acquisition, 25)
           /\ Monthly(r.average_ticket, 15)
           /\ Monthly(r.operational_efficiency, 10)
           /\ r.combined_impact.monthly_impact.num * 100
                  = (25 + 15 + 10) * RevenueTotal * r.combined_impact.monthly_impact.den
           /\ Annual(r.customer_acquisition) /\ Annual(r.average_ticket)
           /\ Annual(r.operational_efficiency) /\ Annual(r.combined_impact)

(***************************************************************************)
(* Properties of analyze_item_performance (SpecItems)                      *)
(***************************************************************************)
\* two item names are one item when they are equal once trimmed and put in
\* one case
Trimmed(cell) == Lower(Strip(cell))
NamedRows == {r \in 1..Len(input.rows) : input.rows[r].item # Missing}
DistinctNames == {Trimmed(input.rows[r].item) : r \in NamedRows}
RowsNamed(name) == {r \in NamedRows : Trimmed(input.rows[r].item) = name}
RECURSIVE PaidOver(_)
PaidOver(rs) ==
    IF rs = {} THEN 0
    ELSE LET r == CHOOSE x \in rs : TRUE
             paid == CleanCurrencyCell(input.rows[r].price)
         IN  (IF paid.nan THEN 0 ELSE paid.cents) + PaidOver(rs \ {r})

ItemsAnalyzed == output.called /\ ~output.ret.raised

\* a ranking lists at most TopN items, no item twice, each with the sum of
\* its rows, and no item comes before one with a larger figure
Ranking(list, by) ==
    /\ Len(list) <= TopN
    /\ \A p, q \in 1..Len(list) : p < q =>
          /\ list[p].item # list[q].item
          /\ ~Larger(list[q][by], list[p][by])
    /\ \A p \in 1..Len(list) :
          /\ Trimmed(list[p].item) \in DistinctNames
          /\ list[p].sum = Amount(PaidOver(RowsNamed(Trimmed(list[p].item))))

\* C20: rows whose item names are equal after trimming and title-casing are
\* counted and summed as one item, total_unique_items is the number of
\* distinct normalized names, and each revenue ranking holds at most 10
\* items in descending order of sum (respectively mean).
C20_ItemsGroupedByNormalizedName ==
    ItemsAnalyzed =>
        LET r == output.ret
        IN  /\ r.total_unique_items = Cardinality(DistinctNames)
            /\ Len(r.most_ordered_items) =
                  (IF Cardinality(DistinctNames) < TopN
                   THEN Cardinality(DistinctNames) ELSE TopN)
            /\ \A p \in 1..Len(r.most_ordered_items) :
                  LET e == r.most_ordered_items[p]
                  IN  /\ e.item = Title(Strip(e.item))
                      /\ e.count = Cardinality(RowsNamed(Trimmed(e.item)))
                      /\ \A q \in 1..Len(r.most_ordered_items) :
                            q # p => r.most_ordered_items[q].item # e.item
            /\ r.has_revenue =>
                  /\ Ranking(r.top_revenue_items, "sum")
                  /\ Ranking(r.highest_avg_price_items, "mean")
                  /\ Len(r.top_revenue_items) =
                        (IF Cardinality(DistinctNames) < TopN
                         THEN Cardinality(DistinctNames) ELSE TopN)

\* "pizza" and "Pizza " were analysed, with prices, and came out as one item
C20_Witness ==
    /\ ItemsAnalyzed
    /\ input.has_price
    /\ \E a, b \in NamedRows :
          /\ input.rows[a].item = "pizza" /\ input.rows[b].item = "Pizza "
          /\ ~CleanCurrencyCell(input.rows[a].price).nan
    /\ output.ret.total_unique_items < Cardinality({input.rows[r].item : r \in NamedRows})

\* more than ten items were analysed and the rankings kept ten of them
C20_RankingCut ==
    /\ ItemsAnalyzed
    /\ input.has_price
    /\ Cardinality(DistinctNames) > TopN
    /\ Len(output.ret.top_revenue_items) = TopN

(***************************************************************************)
(* Properties of save_report (SpecReport)                                  *)
(***************************************************************************)
\* C21: saving a report the analyzer generated completes without raising
\* and writes the report, so that reading the file back gives its figures.
C21_SaveReportCompletes ==
    (output.called /\ ~report.isNone) => (~output.raised /\ output.written)

\* C23: the report the analyzer holds, and the one save_report writes, is
\* the report of the dataset and the mapping the analyzer has now, never one
\* computed before load_data, clean_data, auto_map_columns or
\* set_column_mapping changed them.
C23_ReportIsNeverStale ==
    /\ ~report.isNone =>
          /\ data.loaded /\ ~mapping.isNone
          /\ report = generate_summary_report(data, mapping.fields)
    /\ (output.called /\ output.written) =>
          /\ data.loaded /\ ~mapping.isNone
          /\ output.report = generate_summary_report(data, mapping.fields)

(***************************************************************************)
(* Properties of a RestaurantDataAI across loads (SpecLoad)                *)
(***************************************************************************)
\* C22: after a successful RestaurantDataAI.load_data, column_mapping is the
\* mapping inferred from the columns of the dataset just loaded, with no
\* entry left from a dataset loaded before.
C22_MappingIsOfLoadedDataset ==
    (ai_result.op = "load_data" /\ ai_result.ret = Tag("True"))
    => column_mapping = _auto_detect_columns(ai_data.columns, EmptyMapping).mapping

\* C29: a load_data that returns False leaves the dataset, the column
\* mapping and the data-type label of its analyzer as they were.
C29_FailedLoadChangesNothing ==
    [][/\ (ai_result'.op = "load_data" /\ ai_result'.ret = Tag("False"))
            => UNCHANGED <<ai_data, column_mapping, data_type>>
       /\ (result'.op = "load_data" /\ result'.ret = Tag("False"))
            => UNCHANGED <<data, mapping>>]_vars

(***************************************************************************)
(* Properties of SimpleAnalyzerGUI (SpecGui)                               *)
(***************************************************************************)
\* the threads that are running run_analysis on the analyzer
Running == {w \in Workers : workers[w].pc \notin {"idle", "done"}}

\* C24: no two analysis passes use the analyzer at once: while one thread
\* runs load_data and the analyses, no second thread is started on it.
C24_OneAnalysisAtATime == Cardinality(Running) <= 1

\* C25: a thread whose sales or menu analysis came back skipped does not end
\* in its error path: it reaches the completion step.
C25_SkippedIsNotAnError ==
    \A w \in Workers :
        (/\ workers[w].pc = "done"
         /\ "skipped" \in {workers[w].sales_data.key, workers[w].menu_data.key})
        => workers[w].ended = "complete"

(***************************************************************************)
(* Properties of the data-type label (SpecExport)                          *)
(***************************************************************************)
DataTypeLabels == {"transaction", "summary", "mixed"}

\* C26: the data-type label of a RestaurantDataAI is transaction, summary or
\* mixed in every state, before any load included, and export_analysis
\* writes no other label.
C26_LabelIsOneOfThree ==
    /\ data_type \in DataTypeLabels
    /\ (output.called /\ ~output.raised) => output.data_type \in DataTypeLabels

(***************************************************************************)
(* Properties of clean_data (SpecClean)                                    *)
(***************************************************************************)
\* C28: after clean_data(remove_duplicates=True, handle_missing=s), for any
\* strategy s, no two rows of the dataset are identical, and a second
\* clean_data with the same arguments leaves the dataset as it is.
C28_CleanDataIsIdempotent ==
    (output.called /\ input.remove_duplicates) =>
        /\ Len(output.ret.columns) > 0 =>
              \A j, k \in 1..Len(output.ret.rows) :
                  j # k => output.ret.rows[j] # output.ret.rows[k]
        /\ cleaned_data(output.ret, TRUE, input.handle_missing) = output.ret

(***************************************************************************)
(* Properties of the figures of analyze_sales_trends (SpecSales)           *)
(***************************************************************************)
DatedRows == {r \in 1..Len(input) : ~input[r].date.nat}
RECURSIVE PriceOver(_)
PriceOver(rs) ==
    IF rs = {} THEN 0
    ELSE LET r == CHOOSE x \in rs : TRUE
         IN  (IF input[r].price.nan THEN 0 ELSE input[r].price.cents) + PriceOver(rs \ {r})
HourTotal(h) == PriceOver({r \in DatedRows : input[r].date.hour = h})
DayTotal(d) == PriceOver({r \in DatedRows : input[r].date.day = d})

\* C27: peak_hour is an hour whose summed price is at least that of every
\* other hour, best_day a day with maximal summed price, and among buckets
\* that tie for the maximum the one returned comes first in key order
\* (the smallest hour, the first day name in the order of str).
C27_PeakIsFirstMaximum ==
    (output.called /\ ~output.ret.error) =>
        /\ \E r \in DatedRows : input[r].date.hour = output.ret.peak_hour
        /\ \E r \in DatedRows : input[r].date.day = output.ret.best_day
        /\ \A r \in DatedRows :
              LET h == input[r].date.hour
                  d == input[r].date.day
              IN  /\ HourTotal(h) <= HourTotal(output.ret.peak_hour)
                  /\ HourTotal(h) = HourTotal(output.ret.peak_hour)
                        => output.ret.peak_hour <= h
                  /\ DayTotal(d) <= DayTotal(output.ret.best_day)
                  /\ DayTotal(d) = DayTotal(output.ret.best_day)
                        => ~StrLess(d, output.ret.best_day)

\* Monday at 9 and Friday at 12 sold the same: the peak hour is 9 and the
\* best day Friday
C27_Witness ==
    /\ output.called /\ ~output.ret.error
    /\ Len(input) = 2
    /\ HourTotal(9) = HourTotal(12) /\ HourTotal(9) > 0
    /\ DayTotal("Monday") = DayTotal("Friday")
    /\ output.ret.peak_hour = 9
    /\ output.ret.best_day = "Friday"

(***************************************************************************)
(* The total revenue of the recommendations and of the impacts             *)
(* (SpecSummary)                                                           *)
(***************************************************************************)
RECURSIVE RevenueOver(_)
RevenueOver(cols) ==
    IF cols = {} THEN 0
    ELSE LET i == CHOOSE x \in cols : TRUE
         IN  SeriesSum(input[i].values) + RevenueOver(cols \ {i})
AllRevenue == RevenueOver(RevenueColumns)

\* C30: the revenue_optimization rule of generate_strategic_recommendations
\* and calculate_revenue_impact size their figures on the same total
\* revenue, the sum of the totals of all numeric columns with sales or
\* revenue in their name, also when the file has more than one such column.
C30_SameTotalRevenue ==
    output.called =>
        /\ (output.op = "generate_strategic_recommendations"
                /\ output.ret.kind = "recommended")
              => output.ret.total_revenue = AllRevenue
        /\ (output.op = "calculate_revenue_impact" /\ output.ret.kind = "impacts")
              => FracEq(output.ret.combined_impact.monthly_impact,
                        Frac(50 * AllRevenue, 100))

====
